---------------------------- MODULE Spec2Model ----------------------------
(***************************************************************************)
(* Binary protocol layer of the LunarMarkets dashboard: the little-endian  *)
(* numeric codec (dashboard/src/lib/solana.ts read helpers,                *)
(* dashboard/src/lib/transactions.ts encoders) and the slab decoder        *)
(* (fetchSlabData / parseAccount).                                         *)
(*                                                                         *)
(* Representation.  TLC integers are 32 bits wide, so every value that the *)
(* program holds in a BN, a BigInt or a 32-bit-or-wider number is kept as  *)
(* a sign and a magnitude in base 256: [neg, mag] where mag is the         *)
(* little-endian digit sequence without high zero digits (also the small   *)
(* numbers read from a buffer, so that all readers yield one kind of       *)
(* value).  A Buffer is                                                    *)
(* [len, nz]: its length and the bytes written to it (every other byte of  *)
(* the buffer is 0), so that the real offsets of the slab layout are kept. *)
(***************************************************************************)
EXTENDS Integers, Sequences, FiniteSets, TLC

VARIABLES
    data,      \* fetchSlabData: accountInfo.data of the call in progress
    pc,        \* fetchSlabData: "idle", "fetched", "returned", "threw"
    result,    \* fetchSlabData: what the call returned or threw
    scan,      \* fetchSlabData: the bitmap scan when followed iteration by iteration
    cop,       \* codec: the operation last applied
    cin,       \* codec: its input (a value, or a buffer and an offset)
    cout,      \* codec: its output
    bpc,       \* build: "idle", "awaitAta", "awaitExists", "awaitBlockhash",
               \*        "returned", "threw"
    bcall,     \* build: the function called and its params
    btx,       \* build: the Transaction under construction
    bio,       \* build: the calls made on the connection so far, in order
    bout,      \* build: what the call returned or threw
    bseen,     \* build: the LP addresses derived by the trade calls so far
    ui,        \* TradingPanel: the handler run, its inputs, txStatus, and the
               \*               transactions handed to signAndSendTransaction
    calls,     \* concurrent fetchSlabData: per call its position, the data it
               \*               fetched, the array it named `accounts`, its result
    heap,      \* concurrent fetchSlabData: what each array holds
    panel,     \* TradingPanel: the snapshot shown, the wallet connected and the
               \*               instruction a handler built from them
    pinm,      \* TradingPanel and PinModal: the PIN state, in storage and in React
    market,    \* useMarketData: its state, its timer and its fetches in flight
    wallet     \* WalletProvider: its state, the stored flag, the connect in flight

vars == <<data, pc, result, scan, cop, cin, cout,
          bpc, bcall, btx, bio, bout, bseen, ui, calls, heap, panel,
          pinm, market, wallet>>

slabVars == <<data, pc, result, scan>>
codecVars == <<cop, cin, cout>>

\* the variables of the other parts, for the actions of each part
buildVars == <<bpc, bcall, btx, bio, bout, bseen, ui>>
concVars == <<calls, heap>>
hookVars == <<pinm, market, wallet>>
otherThanSlab == <<codecVars, buildVars, concVars, panel, hookVars>>
otherThanCodec == <<slabVars, buildVars, concVars, panel, hookVars>>
otherThanBuild == <<slabVars, codecVars, concVars, panel, hookVars>>
otherThanConc == <<slabVars, codecVars, buildVars, panel, hookVars>>
otherThanPanel == <<slabVars, codecVars, buildVars, concVars, hookVars>>
otherThanPin == <<slabVars, codecVars, buildVars, concVars, panel, market, wallet>>
otherThanMarket == <<slabVars, codecVars, buildVars, concVars, panel, pinm, wallet>>
otherThanWallet == <<slabVars, codecVars, buildVars, concVars, panel, pinm, market>>

---------------------------------------------------------------------------
(* Base-256 magnitudes (the arithmetic of bn.js / BigInt).                 *)

Zeros(n) == [i \in 1..n |-> 0]

\* d without its high zero digits
Trim(d) ==
    LET used == {i \in 1..Len(d) : d[i] # 0}
    IN  IF used = {} THEN <<>>
        ELSE SubSeq(d, 1, CHOOSE i \in used : \A j \in used : j <= i)

Digit(d, i) == IF i <= Len(d) THEN d[i] ELSE 0

Pad(d, n) == [i \in 1..n |-> Digit(d, i)]

Max2(a, b) == IF a >= b THEN a ELSE b

\* -1, 0, 1 as x < y, x = y, x > y (magnitudes without high zeros)
RECURSIVE MagCmpFrom(_, _, _)
MagCmpFrom(x, y, i) ==
    IF i = 0 THEN 0
    ELSE IF Digit(x, i) < Digit(y, i) THEN -1
    ELSE IF Digit(x, i) > Digit(y, i) THEN 1
    ELSE MagCmpFrom(x, y, i - 1)

MagCmp(x, y) == MagCmpFrom(x, y, Max2(Len(x), Len(y)))

RECURSIVE MagAddFrom(_, _, _, _)
MagAddFrom(x, y, i, carry) ==
    IF i > Max2(Len(x), Len(y))
    THEN (IF carry = 0 THEN <<>> ELSE <<carry>>)
    ELSE LET s == Digit(x, i) + Digit(y, i) + carry
         IN  <<s % 256>> \o MagAddFrom(x, y, i + 1, s \div 256)

MagAdd(x, y) == Trim(MagAddFrom(x, y, 1, 0))

\* x - y for x >= y
RECURSIVE MagSubFrom(_, _, _, _)
MagSubFrom(x, y, i, borrow) ==
    IF i > Len(x) THEN <<>>
    ELSE LET s == Digit(x, i) - Digit(y, i) - borrow
         IN  IF s < 0
             THEN <<s + 256>> \o MagSubFrom(x, y, i + 1, 1)
             ELSE <<s>> \o MagSubFrom(x, y, i + 1, 0)

MagSub(x, y) == Trim(MagSubFrom(x, y, 1, 0))

MagShlBytes(x, n) == IF x = <<>> THEN x ELSE Zeros(n) \o x

Pow256(n) == Zeros(n) \o <<1>>

\* 1000000 = 0x0F4240
MagOfNat(n) == Trim(<<n % 256, (n \div 256) % 256, (n \div 65536) % 256,
                      (n \div 16777216) % 256>>)

---------------------------------------------------------------------------
(* BN / BigInt values.                                                     *)

Num(neg, mag) == LET m == Trim(mag) IN [neg |-> neg /\ m # <<>>, mag |-> m]

BNZero == Num(FALSE, <<>>)

BNOfNat(n) == Num(FALSE, MagOfNat(n))

\* a + b for a, b >= 0  (BN.add on the values the readers build)
BNAdd(a, b) == Num(FALSE, MagAdd(a.mag, b.mag))

\* a - b for a, b >= 0  (BN.sub)
BNSub(a, b) ==
    IF MagCmp(a.mag, b.mag) >= 0
    THEN Num(FALSE, MagSub(a.mag, b.mag))
    ELSE Num(TRUE, MagSub(b.mag, a.mag))

\* a.shln(8 * n)
BNShlBytes(a, n) == Num(a.neg, MagShlBytes(a.mag, n))

\* a.gt(b) for a, b >= 0
BNGt(a, b) == MagCmp(a.mag, b.mag) > 0

---------------------------------------------------------------------------
(* Buffers.                                                                *)

\* what a raising call yields in place of a value
RangeError == [raised |-> "RangeError"]

ByteAt(buf, o) == IF o \in DOMAIN buf.nz THEN buf.nz[o] ELSE 0

\* the w bytes at offset o, lowest address first
Bytes(buf, o, w) == [i \in 1..w |-> ByteAt(buf, o + i - 1)]

BufOfSeq(s) == [len |-> Len(s), nz |-> [o \in 0..(Len(s) - 1) |-> s[o + 1]]]

Min2(a, b) == IF a <= b THEN a ELSE b

\* Buffer.prototype.slice(start, end) for start, end >= 0: clamped to the
\* buffer, never raises
Slice(buf, start, end) ==
    LET s == Min2(start, buf.len)
        e == Max2(s, Min2(end, buf.len))
    IN  [len |-> e - s,
         nz  |-> [o \in {x - s : x \in {y \in DOMAIN buf.nz : y >= s /\ y < e}}
                    |-> buf.nz[o + s]]]

\* buf[i]: undefined (0 under "& 0x80") outside the buffer
Index(buf, i) == IF i >= 0 /\ i < buf.len THEN ByteAt(buf, i) ELSE 0

\* Node's bounds-checked reads: RangeError outside the buffer
readUInt8(buf, o) ==
    IF o < 0 \/ o + 1 > buf.len THEN RangeError
    ELSE Num(FALSE, Bytes(buf, o, 1))

readUInt16LE(buf, o) ==
    IF o < 0 \/ o + 2 > buf.len THEN RangeError
    ELSE Num(FALSE, Bytes(buf, o, 2))

readUInt32LE(buf, o) ==
    IF o < 0 \/ o + 4 > buf.len THEN RangeError
    ELSE Num(FALSE, Bytes(buf, o, 4))

readBigUInt64LE(buf, o) ==
    IF o < 0 \/ o + 8 > buf.len THEN RangeError
    ELSE Num(FALSE, Bytes(buf, o, 8))

\* new BN(buf, 'le')
BNOfBufLE(buf) == Num(FALSE, Bytes(buf, 0, buf.len))

\* new PublicKey(buf): the bytes as a big-endian number of at most 32 bytes,
\* kept here as the 32 bytes toBytes() gives back (zero-padded in front)
PUBLIC_KEY_LENGTH == 32

PublicKeyOf(buf) ==
    [i \in 1..PUBLIC_KEY_LENGTH |->
        IF i <= PUBLIC_KEY_LENGTH - buf.len THEN 0
        ELSE ByteAt(buf, i - 1 - (PUBLIC_KEY_LENGTH - buf.len))]

---------------------------------------------------------------------------
(* Buffer reading helpers, solana.ts 121-178.                              *)

readU8(buf, offset) ==
    IF offset < 0 \/ offset >= buf.len THEN BNZero
    ELSE readUInt8(buf, offset)

readU16(buf, offset) ==
    IF offset < 0 \/ offset + 2 > buf.len THEN BNZero
    ELSE readUInt16LE(buf, offset)

readU32(buf, offset) ==
    IF offset < 0 \/ offset + 4 > buf.len THEN BNZero
    ELSE readUInt32LE(buf, offset)

\* (mutant) the two 32-bit halves taken in the wrong order
readU64HalvesSwapped(buf, offset) ==
    IF offset < 0 \/ offset + 8 > buf.len THEN BNZero
    ELSE BNAdd(BNShlBytes(readUInt32LE(buf, offset), 4), readUInt32LE(buf, offset + 4))

readU64(buf, offset) ==
    IF offset < 0 \/ offset + 8 > buf.len THEN BNZero
    ELSE LET low  == readUInt32LE(buf, offset)
             high == readUInt32LE(buf, offset + 4)
         IN  IF low = RangeError \/ high = RangeError THEN RangeError
             ELSE BNAdd(BNShlBytes(high, 4), low)

readI64(buf, offset) ==
    IF offset < 0 \/ offset + 8 > buf.len THEN BNZero
    ELSE LET b     == Slice(buf, offset, offset + 8)
             value == BNOfBufLE(b)
         IN  IF Index(b, 7) \div 128 = 1
             THEN BNSub(value, Num(FALSE, Pow256(8)))
             ELSE value

readU128(buf, offset) ==
    IF offset < 0 \/ offset + 16 > buf.len THEN BNZero
    ELSE LET low  == readU64(buf, offset)
             high == readU64(buf, offset + 8)
         IN  IF low = RangeError \/ high = RangeError THEN RangeError
             ELSE BNAdd(BNShlBytes(high, 8), low)

readI128(buf, offset) ==
    IF offset < 0 \/ offset + 16 > buf.len THEN BNZero
    ELSE LET b     == Slice(buf, offset, offset + 16)
             value == BNOfBufLE(b)
         IN  IF Index(b, 15) \div 128 = 1
             THEN BNSub(value, Num(FALSE, Pow256(16)))
             ELSE value

readPubkey(buf, offset) ==
    IF offset < 0 \/ offset + 32 > buf.len
    THEN PublicKeyOf(BufOfSeq(Zeros(32)))
    ELSE PublicKeyOf(Slice(buf, offset, offset + 32))

---------------------------------------------------------------------------
(* encI128, transactions.ts 40-60.                                         *)

\* buf.writeBigUInt64LE(x, o): RangeError unless 0 <= x < 2^64
FitsU64(mag) == Len(mag) <= 8

\* (mutant) the carry is added to the first byte and not propagated
AddCarryFirstByteOnly(b, i, carry) ==
    IF i > 16 \/ carry = 0 THEN b ELSE [b EXCEPT ![i] = (b[i] + carry) % 256]

RECURSIVE AddCarry(_, _, _)
AddCarry(b, i, carry) ==
    IF i > 16 \/ carry = 0 THEN b
    ELSE LET sum == b[i] + carry
         IN  AddCarry([b EXCEPT ![i] = sum % 256], i + 1, sum \div 256)

\* (mutant) the bytes of a negative value are inverted and 1 is not added
encI128OnesComplement(bn) ==
    LET isNeg == bn.neg
        abs   == bn.mag
        lo    == [i \in 1..8 |-> Digit(abs, i)]
        hi    == Trim([i \in 1..Max2(Len(abs) - 8, 0) |-> abs[i + 8]])
    IN  IF ~FitsU64(hi) THEN RangeError
        ELSE LET b0  == lo \o Pad(hi, 8)
                 inv == [i \in 1..16 |-> 255 - b0[i]]
             IN  BufOfSeq(IF isNeg THEN inv ELSE b0)

encI128(bn) ==
    LET isNeg == bn.neg
        abs   == bn.mag
        lo    == [i \in 1..8 |-> Digit(abs, i)]                  \* abs & (2^64 - 1)
        hi    == Trim([i \in 1..Max2(Len(abs) - 8, 0) |-> abs[i + 8]])  \* abs >> 64
    IN  IF ~FitsU64(hi) THEN RangeError
        ELSE LET b0  == lo \o Pad(hi, 8)
                 inv == [i \in 1..16 |-> 255 - b0[i]]
             IN  BufOfSeq(IF isNeg THEN AddCarry(inv, 1, 1) ELSE b0)

---------------------------------------------------------------------------
(* The other encoders and the instruction tags, transactions.ts 11-38.     *)

IX_TAG_InitUser == 1
IX_TAG_DepositCollateral == 3
IX_TAG_WithdrawCollateral == 4
IX_TAG_TradeCpi == 10

\* buf.writeUInt8(value, 0) on a Buffer of 1 byte
encU8(value) ==
    IF value < 0 \/ value > 255 THEN RangeError ELSE BufOfSeq(<<value>>)

\* (mutant) the high byte first
encU16BigEndian(value) ==
    IF value < 0 \/ value > 65535 THEN RangeError
    ELSE BufOfSeq(<<value \div 256, value % 256>>)

\* buf.writeUInt16LE(value, 0) on a Buffer of 2 bytes
encU16(value) ==
    IF value < 0 \/ value > 65535 THEN RangeError
    ELSE BufOfSeq(<<value % 256, value \div 256>>)

\* buf.writeBigUInt64LE(BigInt(value), 0) on a Buffer of 8 bytes
encU64(bn) ==
    IF bn.neg \/ ~FitsU64(bn.mag) THEN RangeError
    ELSE BufOfSeq(Pad(bn.mag, 8))

\* Buffer.concat(parts), a part that raised making the whole raise
RECURSIVE ConcatBytes(_)
ConcatBytes(parts) ==
    IF parts = <<>> THEN <<>>
    ELSE Bytes(Head(parts), 0, Head(parts).len) \o ConcatBytes(Tail(parts))

Concat(parts) ==
    IF \E i \in 1..Len(parts) : parts[i] = RangeError THEN RangeError
    ELSE BufOfSeq(ConcatBytes(parts))

\* BN.toNumber(): raises over 53 bits
ToNumber(bn) ==
    IF MagCmp(bn.mag, <<0, 0, 0, 0, 0, 0, 32>>) >= 0
    THEN [raised |-> "Number can only safely store up to 53 bits"]
    ELSE bn

---------------------------------------------------------------------------
(* Slab layout constants, solana.ts 16-92.                                 *)

MAGIC_OFFSET == 0
CONFIG_OFFSET == 72
CONFIG_LEN == 320
CONFIG_LAST_EFFECTIVE_PRICE_OFF == 312
ENGINE_OFF == 392
ENGINE_VAULT_OFF == 0
ENGINE_INSURANCE_OFF == 16
ENGINE_FUNDING_INDEX_OFF == 200
ENGINE_LAST_FUNDING_SLOT_OFF == 216
ENGINE_TOTAL_OI_OFF == 248
ENGINE_C_TOT_OFF == 264
ENGINE_PNL_POS_TOT_OFF == 280
ENGINE_BITMAP_OFF == 408
ENGINE_NUM_USED_OFF == 920
ENGINE_NEXT_ACCOUNT_ID_OFF == 928
ENGINE_FREE_HEAD_OFF == 936
ENGINE_ACCOUNTS_OFF == 9136
BITMAP_WORDS == 64
MAX_ACCOUNTS == 4096
ACCOUNT_SIZE == 240
ACCT_ACCOUNT_ID_OFF == 0
ACCT_CAPITAL_OFF == 8
ACCT_KIND_OFF == 24
ACCT_PNL_OFF == 32
ACCT_RESERVED_PNL_OFF == 48
ACCT_WARMUP_STARTED_OFF == 56
ACCT_WARMUP_SLOPE_OFF == 64
ACCT_POSITION_SIZE_OFF == 80
ACCT_ENTRY_PRICE_OFF == 96
ACCT_FUNDING_INDEX_OFF == 104
ACCT_MATCHER_PROGRAM_OFF == 120
ACCT_MATCHER_CONTEXT_OFF == 152
ACCT_OWNER_OFF == 184
ACCT_FEE_CREDITS_OFF == 216
ACCT_LAST_FEE_SLOT_OFF == 232

\* offsets within the config section of the fields read without a constant
CONFIG_VAULT_PUBKEY_OFF == 32
CONFIG_VAULT_BUMP_OFF == 106
CONFIG_UNIT_SCALE_OFF == 108

\* BigInt('0x504552434f4c4154'), "PERCOLAT"
expectedMagic == Num(FALSE, <<84, 65, 76, 79, 67, 82, 69, 80>>)

\* the ceiling of a stored account_id
ACCOUNT_ID_CEILING == 1000000

---------------------------------------------------------------------------
(* parseAccount, solana.ts 297-348.                                        *)

NoRecord == [none |-> TRUE]

\* (mutant) the ceiling itself is refused too
InvalidAccountIdFromCeiling(storedAccountId) ==
    ~BNGt(BNOfNat(ACCOUNT_ID_CEILING), storedAccountId)

\* line 303: storedAccountId.gt(new BN(1000000))
InvalidAccountId(storedAccountId) ==
    BNGt(storedAccountId, BNOfNat(ACCOUNT_ID_CEILING))

\* (mutant) the stored account_id is reported
AccountIdStored(storedAccountId, idx) ==
    Digit(storedAccountId.mag, 1) + 256 * Digit(storedAccountId.mag, 2)
        + 65536 * Digit(storedAccountId.mag, 3)

\* line 310: const accountId = new BN(idx)
AccountIdOf(storedAccountId, idx) == idx

parseAccount(buf, idx) ==
    LET storedAccountId == readU64(buf, ACCT_ACCOUNT_ID_OFF)
    IN  IF InvalidAccountId(storedAccountId) THEN NoRecord
        ELSE [accountId           |-> AccountIdOf(storedAccountId, idx),
              capital             |-> readU128(buf, ACCT_CAPITAL_OFF),
              kind                |-> readU8(buf, ACCT_KIND_OFF),
              pnl                 |-> readI128(buf, ACCT_PNL_OFF),
              reservedPnl         |-> readU64(buf, ACCT_RESERVED_PNL_OFF),
              warmupStartedAtSlot |-> readU64(buf, ACCT_WARMUP_STARTED_OFF),
              warmupSlopePerStep  |-> readU128(buf, ACCT_WARMUP_SLOPE_OFF),
              positionSize        |-> readI128(buf, ACCT_POSITION_SIZE_OFF),
              entryPrice          |-> readU64(buf, ACCT_ENTRY_PRICE_OFF),
              fundingIndex        |-> readI128(buf, ACCT_FUNDING_INDEX_OFF),
              matcherProgram      |-> readPubkey(buf, ACCT_MATCHER_PROGRAM_OFF),
              matcherContext      |-> readPubkey(buf, ACCT_MATCHER_CONTEXT_OFF),
              owner               |-> readPubkey(buf, ACCT_OWNER_OFF),
              feeCredits          |-> readI128(buf, ACCT_FEE_CREDITS_OFF),
              lastFeeSlot         |-> readU64(buf, ACCT_LAST_FEE_SLOT_OFF)]

---------------------------------------------------------------------------
(* fetchSlabData, solana.ts 184-295.                                       *)

\* a number of at most two digits as an integer (numUsedAccounts)
NatOf(n) == Digit(n.mag, 1) + 256 * Digit(n.mag, 2)

\* (mutant) every slot is taken as live
BitSetAlways(word, bitIdx) == TRUE

\* (word & (1n << bitIdx)) !== 0n on the eight little-endian bytes of word
BitSet(word, bitIdx) ==
    (Digit(word.mag, (bitIdx \div 8) + 1) \div (2 ^ (bitIdx % 8))) % 2 = 1

accountsOffset == ENGINE_OFF + ENGINE_ACCOUNTS_OFF
bitmapOffset == ENGINE_OFF + ENGINE_BITMAP_OFF

\* (mutant) eight slots to the word
SlotIndexByBytes(wordIdx, bitIdx) == wordIdx * 8 + bitIdx

\* line 260: const idx = wordIdx * 64 + bitIdx
SlotIndex(wordIdx, bitIdx) == wordIdx * 64 + bitIdx

\* (mutant) only the start of the record is required to lie in the buffer
ExceedsDataAtStart(buf, accountOffset) == accountOffset >= buf.len

\* line 264: accountOffset + ACCOUNT_SIZE > data.length
ExceedsData(buf, accountOffset) == accountOffset + ACCOUNT_SIZE > buf.len

\* (mutant) the new account is put in front
PushFront(accounts, account) == <<account>> \o accounts

\* line 273: accounts.push(account)
Push(accounts, account) == Append(accounts, account)

\* (mutant) one record more than numUsedAccounts is let through
BelowCapInclusive(parsedCount, numUsedAccounts) == parsedCount <= numUsedAccounts

\* lines 251 and 258: parsedCount < numUsedAccounts
BelowCap(parsedCount, numUsedAccounts) == parsedCount < numUsedAccounts

\* The state of the scan: the accounts pushed, parsedCount, whether the
\* loop was left by break, and (kept for the properties) the slots handed
\* to parseAccount and the indices of the bitmap words read.
ScanStart ==
    [accounts |-> <<>>, parsedCount |-> 0, broke |-> FALSE,
     parsed |-> <<>>, words |-> <<>>]

\* (mutant) parsedCount goes up for every slot handed to parseAccount
CountAfterAnyParse(parsedCount, account) == parsedCount + 1

\* lines 272-275: parsedCount++ inside if (account)
CountAfter(parsedCount, account) ==
    IF account # NoRecord THEN parsedCount + 1 ELSE parsedCount

\* one iteration of the inner loop, lines 258-277: its condition and body
BitStep(buf, word, wordIdx, bitIdx, numUsedAccounts, st) ==
    IF st.broke \/ ~BelowCap(st.parsedCount, numUsedAccounts) THEN st
    ELSE IF ~BitSet(word, bitIdx) THEN st
    ELSE LET idx           == SlotIndex(wordIdx, bitIdx)
             accountOffset == accountsOffset + idx * ACCOUNT_SIZE
         IN  IF idx >= MAX_ACCOUNTS THEN [st EXCEPT !.broke = TRUE]
             ELSE IF ExceedsData(buf, accountOffset)
             THEN [st EXCEPT !.broke = TRUE]
             ELSE LET accountData == Slice(buf, accountOffset, accountOffset + ACCOUNT_SIZE)
                      account     == parseAccount(accountData, idx)
                      seen        == [st EXCEPT !.parsed = Append(@, idx)]
                  IN  IF account # NoRecord
                      THEN [seen EXCEPT !.accounts = Push(@, account),
                                        !.parsedCount = CountAfter(@, account)]
                      ELSE [seen EXCEPT !.parsedCount = CountAfter(@, account)]

\* the iterations lo .. hi-1 of the inner loop in order, split in halves to
\* keep the evaluation shallow; the second half is skipped once the loop is
\* over (left by break, or parsedCount at numUsedAccounts)
RECURSIVE BitLoop(_, _, _, _, _, _, _)
BitLoop(buf, word, wordIdx, lo, hi, numUsedAccounts, st) ==
    IF hi - lo = 1 THEN BitStep(buf, word, wordIdx, lo, numUsedAccounts, st)
    ELSE LET mid   == (lo + hi) \div 2
             first == BitLoop(buf, word, wordIdx, lo, mid, numUsedAccounts, st)
         IN  IF first.broke \/ ~BelowCap(first.parsedCount, numUsedAccounts) THEN first
             ELSE BitLoop(buf, word, wordIdx, mid, hi, numUsedAccounts, first)

\* one iteration of the outer loop, lines 251-278: its condition and body
WordStep(buf, wordIdx, numUsedAccounts, st) ==
    IF st.broke \/ ~BelowCap(st.parsedCount, numUsedAccounts) THEN st
    ELSE LET wordOffset == bitmapOffset + wordIdx * 8
         IN  IF wordOffset + 8 > buf.len THEN [st EXCEPT !.broke = TRUE]
             ELSE LET word == readBigUInt64LE(buf, wordOffset)
                      read == [st EXCEPT !.words = Append(@, wordIdx)]
                  IN  IF word = BNZero THEN read
                      ELSE [BitLoop(buf, word, wordIdx, 0, 64, numUsedAccounts, read)
                                EXCEPT !.broke = FALSE]

\* the iterations lo .. hi-1 of the outer loop in order
RECURSIVE WordLoop(_, _, _, _, _)
WordLoop(buf, lo, hi, numUsedAccounts, st) ==
    IF hi - lo = 1 THEN WordStep(buf, lo, numUsedAccounts, st)
    ELSE LET mid   == (lo + hi) \div 2
             first == WordLoop(buf, lo, mid, numUsedAccounts, st)
         IN  IF first.broke \/ ~BelowCap(first.parsedCount, numUsedAccounts) THEN first
             ELSE WordLoop(buf, mid, hi, numUsedAccounts, first)

ScanWords(buf, numUsedAccounts) ==
    WordLoop(buf, 0, BITMAP_WORDS, numUsedAccounts, ScanStart)

Threw(e) == [status |-> "threw", error |-> e]

Undefined == [undefined |-> TRUE]

\* (mutant) only the low 32 bits of the magic are compared
CheckMagicLow32(buf) ==
    LET magic == readUInt32LE(buf, MAGIC_OFFSET)
    IN  IF magic = RangeError THEN "RangeError"
        ELSE IF magic # Num(FALSE, SubSeq(expectedMagic.mag, 1, 4)) THEN "Invalid magic"
        ELSE "ok"

\* lines 201-206: "ok", or the error thrown
CheckMagic(buf) ==
    LET magic == readBigUInt64LE(buf, MAGIC_OFFSET)
    IN  IF magic = RangeError THEN "RangeError"
        ELSE IF magic # expectedMagic THEN "Invalid magic"
        ELSE "ok"

\* lines 209-226, the reads that can raise: "ok", or the error thrown
ReadConfig(buf) ==
    LET configData      == Slice(buf, CONFIG_OFFSET, CONFIG_OFFSET + CONFIG_LEN)
        oraclePriceLow  == readUInt32LE(configData, CONFIG_LAST_EFFECTIVE_PRICE_OFF)
        oraclePriceHigh == readUInt32LE(configData, CONFIG_LAST_EFFECTIVE_PRICE_OFF + 4)
    IN  IF oraclePriceLow = RangeError \/ oraclePriceHigh = RangeError
        THEN "RangeError"
        ELSE "ok"

\* (mutant) the low half is taken as the high one
OraclePriceHalvesSwapped(oraclePriceLow, oraclePriceHigh) ==
    BNAdd(BNShlBytes(oraclePriceLow, 4), oraclePriceHigh)

\* line 226: new BN(oraclePriceHigh).shln(32).add(new BN(oraclePriceLow))
OraclePrice(oraclePriceLow, oraclePriceHigh) ==
    BNAdd(BNShlBytes(oraclePriceHigh, 4), oraclePriceLow)

\* line 238, as the number the loops compare parsedCount with
NumUsedAccounts(buf) ==
    NatOf(readU16(Slice(buf, ENGINE_OFF, buf.len), ENGINE_NUM_USED_OFF))

\* lines 209-240 and 280-294: the value returned once the scan has ended in
\* state scanned (CheckMagic and ReadConfig have passed)
SlabData(buf, scanned) ==
    LET configData       == Slice(buf, CONFIG_OFFSET, CONFIG_OFFSET + CONFIG_LEN)
        vaultPubkeyBytes == Slice(configData, CONFIG_VAULT_PUBKEY_OFF,
                                  CONFIG_VAULT_PUBKEY_OFF + 32)
        oraclePriceLow   == readUInt32LE(configData, CONFIG_LAST_EFFECTIVE_PRICE_OFF)
        oraclePriceHigh  == readUInt32LE(configData, CONFIG_LAST_EFFECTIVE_PRICE_OFF + 4)
        engineData       == Slice(buf, ENGINE_OFF, buf.len)
    IN  [status |-> "returned",
         slab |->
           [accounts           |-> scanned.accounts,
            totalAccounts      |-> Len(scanned.accounts),
            vaultBalance       |-> readU128(engineData, ENGINE_VAULT_OFF),
            vaultAddress       |-> PublicKeyOf(vaultPubkeyBytes),
            vaultAuthorityBump |->
                IF CONFIG_VAULT_BUMP_OFF < configData.len
                THEN Num(FALSE, <<ByteAt(configData, CONFIG_VAULT_BUMP_OFF)>>)
                ELSE Undefined,
            unitScale          |-> readU32(configData, CONFIG_UNIT_SCALE_OFF),
            insuranceFund      |-> readU128(engineData, ENGINE_INSURANCE_OFF),
            globalFundingIndex |-> readU128(engineData, ENGINE_FUNDING_INDEX_OFF),
            lastFundingSlot    |-> readU64(engineData, ENGINE_LAST_FUNDING_SLOT_OFF),
            oraclePriceE6      |-> OraclePrice(oraclePriceLow, oraclePriceHigh),
            totalOpenInterest  |-> readU128(engineData, ENGINE_TOTAL_OI_OFF),
            cTot               |-> readU128(engineData, ENGINE_C_TOT_OFF)],
         \* locals that are not returned
         locals |->
           [pnlPosTot       |-> readU128(engineData, ENGINE_PNL_POS_TOT_OFF),
            numUsedAccounts |-> readU16(engineData, ENGINE_NUM_USED_OFF),
            nextAccountId   |-> readU64(engineData, ENGINE_NEXT_ACCOUNT_ID_OFF),
            freeHead        |-> readU16(engineData, ENGINE_FREE_HEAD_OFF),
            parsed          |-> scanned.parsed,
            words           |-> scanned.words]]

\* everything after "const data = accountInfo.data"
DecodeSlab(buf) ==
    IF CheckMagic(buf) # "ok" THEN Threw(CheckMagic(buf))
    ELSE IF ReadConfig(buf) # "ok" THEN Threw(ReadConfig(buf))
    ELSE SlabData(buf, ScanWords(buf, NumUsedAccounts(buf)))

---------------------------------------------------------------------------
(* Slab buffers handed to fetchSlabData.                                   *)

\* how many account slots the sample buffers use
NumSlots == 3

\* the largest numUsedAccounts written into a sample buffer
MaxUsed == 3

SlotSample(j) ==
    CASE j = 1 -> 0
      [] j = 2 -> 2
      [] j = 3 -> 64
      [] j = 4 -> 4095
      [] j = 5 -> 63
      [] OTHER -> (j * 613) % MAX_ACCOUNTS

SampleSlots == {SlotSample(j) : j \in 1..NumSlots}

\* what a sample slot stores as account_id: its own index, another small
\* number, the ceiling, one over the ceiling
IdKinds == {"own", "other", "ceiling", "over"}

StoredIdBytes(kind, slot) ==
    CASE kind = "own"     -> <<slot % 256, slot \div 256, 0, 0, 0, 0, 0, 0>>
      [] kind = "other"   -> <<(slot + 1) % 256, (slot + 1) \div 256, 0, 0, 0, 0, 0, 0>>
      [] kind = "ceiling" -> <<64, 66, 15, 0, 0, 0, 0, 0>>
      [] OTHER            -> <<65, 66, 15, 0, 0, 0, 0, 0>>

fullLength == accountsOffset + MAX_ACCOUNTS * ACCOUNT_SIZE

LenSamples ==
    {7, 8, 100, 387, 388, 1313, 1314, accountsOffset, fullLength}
    \cup {accountsOffset + s * ACCOUNT_SIZE + 100 : s \in SampleSlots}
    \cup {accountsOffset + (s + 1) * ACCOUNT_SIZE : s \in SampleSlots}

\* the byte of the bitmap at absolute offset o, for the live slots
BitmapByte(o, live) ==
    LET first == (o - bitmapOffset) * 8
        Bit(b) == IF first + b \in live THEN 2 ^ b ELSE 0
    IN  Bit(0) + Bit(1) + Bit(2) + Bit(3) + Bit(4) + Bit(5) + Bit(6) + Bit(7)

\* the offsets a sample buffer has bytes written at (all other bytes are 0)
ScalarOffsets ==
    (0..7) \cup {104, 135, 178, 180, 181, 384, 385, 386, 392, 407, 408, 592,
                 608, 640, 656, 672, 1312, 1313, 1320, 1328}

RecordOffsets ==
    (0..7) \cup {8, 9, 24, 25, 32, 47, 48, 56, 64, 80, 95, 96, 104, 119,
                 120, 151, 152, 183, 184, 215, 216, 231, 232, 239}

SlotOffsets(s) == {accountsOffset + s * ACCOUNT_SIZE + r : r \in RecordOffsets}

WrittenOffsets(live) ==
    ScalarOffsets
    \cup {bitmapOffset + (s \div 8) : s \in live}
    \cup UNION {SlotOffsets(s) : s \in SampleSlots}

\* ids: the kind of stored id of every live slot (the other sample slots
\* hold a record with their own index, left behind by a closed account)
SampleByte(o, magicOk, numUsed, live, ids) ==
    IF o < 8 THEN (IF o = 7 /\ ~magicOk THEN 81 ELSE expectedMagic.mag[o + 1])
    ELSE IF o \in 384..386 THEN <<135, 214, 18>>[o - 383]   \* 1234567
    ELSE IF o \in 180..181 THEN <<232, 3>>[o - 179]         \* 1000
    ELSE IF o = 1312 THEN numUsed % 256
    ELSE IF o = 1313 THEN numUsed \div 256
    ELSE IF o \in bitmapOffset..(bitmapOffset + 8 * BITMAP_WORDS - 1) THEN BitmapByte(o, live)
    ELSE IF o < accountsOffset THEN (o * 5 + 9) % 256
    ELSE LET s == (o - accountsOffset) \div ACCOUNT_SIZE
             r == (o - accountsOffset) % ACCOUNT_SIZE
         IN  IF r < 8 THEN StoredIdBytes(IF s \in live THEN ids[s] ELSE "own", s)[r + 1]
             ELSE IF r = ACCT_KIND_OFF THEN s % 2
             ELSE (s * 7 + r * 3 + 1) % 256

SlabInput(len, magicOk, numUsed, live, ids) ==
    [len |-> len,
     nz  |-> [o \in {x \in WrittenOffsets(live) : x < len}
                |-> SampleByte(o, magicOk, numUsed, live, ids)]]

---------------------------------------------------------------------------
(* One call of fetchSlabData.                                              *)

\* the scan followed iteration by iteration: where it is (phase), the loop
\* counters, the bitmap word of the inner loop, numUsedAccounts, and what it
\* has collected
ScanIdle ==
    [phase |-> "off", wordIdx |-> 0, bitIdx |-> 0, word |-> BNZero,
     numUsedAccounts |-> 0, st |-> ScanStart]

SlabInit ==
    /\ data = [len |-> 0, nz |-> <<>>]
    /\ pc = "idle"
    /\ result = [status |-> "none"]
    /\ scan = ScanIdle

\* The parameters of the sample buffers of length len.  A parameter whose
\* bytes lie past len is fixed, since every choice gives the same buffer.
MagicChoices(len) == IF len >= 8 THEN BOOLEAN ELSE {TRUE}
UsedChoices(len) == IF len > bitmapOffset + 8 * BITMAP_WORDS THEN 0..MaxUsed ELSE {0}
LiveChoices(len) == SUBSET {s \in SampleSlots : bitmapOffset + (s \div 8) < len}
IdChoices(len, live) ==
    {ids \in [live -> IdKinds] :
        \A s \in live : accountsOffset + s * ACCOUNT_SIZE >= len => ids[s] = "own"}

\* connection.getAccountInfo resolves with the account
Fetch ==
    /\ pc = "idle"
    /\ \E len \in LenSamples :
        \E magicOk \in MagicChoices(len), numUsed \in UsedChoices(len),
           live \in LiveChoices(len) :
            \E ids \in IdChoices(len, live) :
                data' = SlabInput(len, magicOk, numUsed, live, ids)
    /\ pc' = "fetched"
    /\ UNCHANGED <<result, scan, otherThanSlab>>

\* connection.getAccountInfo resolves with null
FetchNull ==
    /\ pc = "idle"
    /\ pc' = "threw"
    /\ result' = Threw("Slab account not found")
    /\ UNCHANGED <<data, scan, otherThanSlab>>

\* the synchronous rest of fetchSlabData
Decode ==
    /\ pc = "fetched"
    /\ result' = DecodeSlab(data)
    /\ pc' = result'.status
    /\ UNCHANGED <<data, scan, otherThanSlab>>

---------------------------------------------------------------------------
(* One call of fetchSlabData, the scan taken one loop iteration at a time. *)

ScanLens == {100, 1313, 1314, accountsOffset + 3 * ACCOUNT_SIZE, fullLength}

ScanIdKinds == {"own", "over"}

\* connection.getAccountInfo resolves with the account
FetchForScan ==
    /\ pc = "idle"
    /\ \E len \in ScanLens :
        \E magicOk \in MagicChoices(len), numUsed \in UsedChoices(len),
           live \in LiveChoices(len) :
            \E ids \in IdChoices(len, live) \cap [live -> ScanIdKinds] :
                data' = SlabInput(len, magicOk, numUsed, live, ids)
    /\ pc' = "fetched"
    /\ UNCHANGED <<result, scan, otherThanSlab>>

\* lines 197-250: the header, the config and the engine scalars
ScanBegin ==
    /\ pc = "fetched"
    /\ IF CheckMagic(data) # "ok"
       THEN pc' = "threw" /\ result' = Threw(CheckMagic(data)) /\ UNCHANGED scan
       ELSE IF ReadConfig(data) # "ok"
       THEN pc' = "threw" /\ result' = Threw(ReadConfig(data)) /\ UNCHANGED scan
       ELSE /\ pc' = "scanning"
            /\ scan' = [ScanIdle EXCEPT !.phase = "word",
                                        !.numUsedAccounts = NumUsedAccounts(data)]
            /\ UNCHANGED result
    /\ UNCHANGED <<data, otherThanSlab>>

\* lines 251-256: the test of the outer loop and its body up to the inner
\* loop
WordIter ==
    /\ pc = "scanning"
    /\ scan.phase = "word"
    /\ LET wordOffset == bitmapOffset + scan.wordIdx * 8
           word       == readBigUInt64LE(data, wordOffset)
       IN  IF ~(scan.wordIdx < BITMAP_WORDS
                    /\ BelowCap(scan.st.parsedCount, scan.numUsedAccounts))
           THEN scan' = [scan EXCEPT !.phase = "done"]
           ELSE IF wordOffset + 8 > data.len
           THEN scan' = [scan EXCEPT !.phase = "done"]
           ELSE IF word = BNZero
           THEN scan' = [scan EXCEPT !.wordIdx = @ + 1,
                                     !.st.words = Append(@, scan.wordIdx)]
           ELSE scan' = [scan EXCEPT !.phase = "bit", !.bitIdx = 0, !.word = word,
                                     !.st.words = Append(@, scan.wordIdx)]
    /\ UNCHANGED <<data, pc, result, otherThanSlab>>

\* lines 258-277: the test of the inner loop and its body
BitIter ==
    /\ pc = "scanning"
    /\ scan.phase = "bit"
    /\ LET after == BitStep(data, scan.word, scan.wordIdx, scan.bitIdx,
                            scan.numUsedAccounts, scan.st)
       IN  IF ~(scan.bitIdx < 64 /\ BelowCap(scan.st.parsedCount, scan.numUsedAccounts))
              \/ after.broke
           THEN scan' = [scan EXCEPT !.phase = "word", !.wordIdx = @ + 1]
           ELSE scan' = [scan EXCEPT !.bitIdx = @ + 1, !.st = after]
    /\ UNCHANGED <<data, pc, result, otherThanSlab>>

\* lines 280-294
ScanReturn ==
    /\ pc = "scanning"
    /\ scan.phase = "done"
    /\ result' = SlabData(data, scan.st)
    /\ pc' = "returned"
    /\ UNCHANGED <<data, scan, otherThanSlab>>

NextScan == FetchForScan \/ FetchNull \/ ScanBegin \/ WordIter \/ BitIter \/ ScanReturn

---------------------------------------------------------------------------
(* Addresses, instructions and transactions (web3.js, spl-token).  A       *)
(* PublicKey given to the program is [name]; a derived one is kept as what *)
(* it is derived from, its seeds and the program.                          *)

Addr(name) == [name |-> name]

TOKEN_PROGRAM_ID == Addr("TOKEN_PROGRAM_ID")
ASSOCIATED_TOKEN_PROGRAM_ID == Addr("ASSOCIATED_TOKEN_PROGRAM_ID")
NATIVE_MINT == Addr("NATIVE_MINT")
SYSVAR_CLOCK_PUBKEY == Addr("SYSVAR_CLOCK_PUBKEY")

\* pubkey.toBuffer(): the 32 bytes of the key
ToBuffer(pubkey) == [toBuffer |-> pubkey]

\* PublicKey.findProgramAddressSync(seeds, programId)[0]
FindProgramAddress(seeds, programId) == [seeds |-> seeds, programId |-> programId]

\* Token.getAssociatedTokenAddress(ASSOCIATED_TOKEN_PROGRAM_ID,
\* TOKEN_PROGRAM_ID, mint, owner): derived, no call on the connection
GetAssociatedTokenAddress(mint, owner) ==
    FindProgramAddress(<<ToBuffer(owner), ToBuffer(TOKEN_PROGRAM_ID), ToBuffer(mint)>>,
                       ASSOCIATED_TOKEN_PROGRAM_ID)

\* Buffer.from('vault'), Buffer.from('lp')
VaultSeed == <<118, 97, 117, 108, 116>>
LpSeed == <<108, 112>>

\* transactions.ts 63-69
getVaultPda(slabAddress, programId) ==
    FindProgramAddress(<<VaultSeed, ToBuffer(slabAddress)>>, programId)

Key(pubkey, isSigner, isWritable) ==
    [pubkey |-> pubkey, isSigner |-> isSigner, isWritable |-> isWritable]

\* new Transaction()
NewTransaction ==
    [instructions |-> <<>>, feePayer |-> Undefined, recentBlockhash |-> Undefined]

\* the params every call is given the same
userPublicKey == Addr("user")
vaultAddress == Addr("vault")
oracleAddress == Addr("oracle")
lpOwner == Addr("lpOwner")
matcherProgram == Addr("matcherProgram")
matcherContext == Addr("matcherContext")

UserAta(call) == GetAssociatedTokenAddress(call.collateralMint, userPublicKey)

\* collateralMint.equals(NATIVE_MINT)
IsNativeSOL(call) == call.collateralMint = NATIVE_MINT

\* the instructions of the libraries, kept as the call that makes them
CreateAta(call) ==
    [kind |-> "createAssociatedTokenAccount", mint |-> call.collateralMint,
     associatedAccount |-> UserAta(call), owner |-> userPublicKey,
     payer |-> userPublicKey]

Transfer(call, lamports) ==
    [kind |-> "transfer", fromPubkey |-> userPublicKey, toPubkey |-> UserAta(call),
     lamports |-> lamports]

SyncNative(call) == [kind |-> "syncNative", account |-> UserAta(call)]

CloseAccount(call) ==
    [kind |-> "closeAccount", account |-> UserAta(call), dest |-> userPublicKey,
     owner |-> userPublicKey]

---------------------------------------------------------------------------
(* The program instruction of each build function.                         *)

\* (mutant) the seed is taken from the user's index
LpSeedIndexOfUser(params) == params.userIdx

\* transactions.ts 333: lpIdxBuffer.writeUInt16LE(lpIdx, 0)
LpSeedIndex(params) == params.lpIdx

\* transactions.ts 332-337
LpPda(call) ==
    LET lpIdxBuffer == encU16(LpSeedIndex(call))
    IN  IF lpIdxBuffer = RangeError THEN RangeError
        ELSE FindProgramAddress(<<LpSeed, ToBuffer(call.slabAddress), lpIdxBuffer>>,
                                call.programId)

\* transactions.ts 130-133, 215-219, 270-274, 340-345
ProgramData(call) ==
    CASE call.fn = "InitUser" ->
            Concat(<<encU8(IX_TAG_InitUser), encU64(call.amount)>>)
      [] call.fn = "Deposit" ->
            Concat(<<encU8(IX_TAG_DepositCollateral), encU16(call.userIdx),
                     encU64(call.amount)>>)
      [] call.fn = "Withdraw" ->
            Concat(<<encU8(IX_TAG_WithdrawCollateral), encU16(call.userIdx),
                     encU64(call.amount)>>)
      [] OTHER ->
            Concat(<<encU8(IX_TAG_TradeCpi), encU16(call.lpIdx), encU16(call.userIdx),
                     encI128(call.size)>>)

\* transactions.ts 137-143, 223-230, 278-287, 349-358
ProgramKeys(call) ==
    CASE call.fn = "InitUser" ->
            <<Key(userPublicKey, TRUE, TRUE), Key(call.slabAddress, FALSE, TRUE),
              Key(UserAta(call), FALSE, TRUE), Key(vaultAddress, FALSE, TRUE),
              Key(TOKEN_PROGRAM_ID, FALSE, FALSE)>>
      [] call.fn = "Deposit" ->
            <<Key(userPublicKey, TRUE, TRUE), Key(call.slabAddress, FALSE, TRUE),
              Key(UserAta(call), FALSE, TRUE), Key(vaultAddress, FALSE, TRUE),
              Key(TOKEN_PROGRAM_ID, FALSE, FALSE), Key(SYSVAR_CLOCK_PUBKEY, FALSE, FALSE)>>
      [] call.fn = "Withdraw" ->
            <<Key(userPublicKey, TRUE, TRUE), Key(call.slabAddress, FALSE, TRUE),
              Key(vaultAddress, FALSE, TRUE), Key(UserAta(call), FALSE, TRUE),
              Key(getVaultPda(call.slabAddress, call.programId), FALSE, FALSE),
              Key(TOKEN_PROGRAM_ID, FALSE, FALSE), Key(SYSVAR_CLOCK_PUBKEY, FALSE, FALSE),
              Key(oracleAddress, FALSE, FALSE)>>
      [] OTHER ->
            <<Key(userPublicKey, TRUE, FALSE), Key(lpOwner, FALSE, FALSE),
              Key(call.slabAddress, FALSE, TRUE), Key(SYSVAR_CLOCK_PUBKEY, FALSE, FALSE),
              Key(oracleAddress, FALSE, FALSE), Key(matcherProgram, FALSE, FALSE),
              Key(matcherContext, FALSE, TRUE), Key(LpPda(call), FALSE, FALSE)>>

\* new TransactionInstruction({keys, programId, data})
ProgramInstruction(call) ==
    [kind |-> "program", programId |-> call.programId, keys |-> ProgramKeys(call),
     data |-> ProgramData(call)]

\* what building the program instruction raises, or "ok"
ProgramRaises(call) ==
    IF call.fn = "Trade" /\ LpPda(call) = RangeError THEN "RangeError"
    ELSE IF ProgramData(call) = RangeError THEN "RangeError"
    ELSE "ok"

\* (mutant) the sync instruction is put before the transfer
WrapInstructionsSyncFirst(created, transfer, sync) == created \o <<sync, transfer>>

\* transactions.ts 100-126 and 185-211: the order of transaction.add
WrapInstructions(created, transfer, sync) == created \o <<transfer, sync>>

\* (mutant) the account is closed before the withdrawal
WithdrawInstructionsCloseFirst(instruction, close, isNativeSOL) ==
    IF isNativeSOL THEN <<close, instruction>> ELSE <<instruction>>

\* transactions.ts 292-307
WithdrawInstructions(instruction, close, isNativeSOL) ==
    IF isNativeSOL THEN <<instruction, close>> ELSE <<instruction>>

\* (mutant) the associated account is looked up for every mint
NeedsExistenceCheckAlways(call) == TRUE

\* transactions.ts 96 and 181: if (isNativeSOL)
NeedsExistenceCheck(call) == IsNativeSOL(call)

---------------------------------------------------------------------------
(* Inputs of the codec.                                                    *)

\* how many bytes of a sample differ from the fill byte
MaxOverride == 2

\* the longest buffer handed to a read helper
MaxBufLen == 33

ByteSamples == {0, 1, 127, 128, 255}

RECURSIVE Overridden(_, _)
Overridden(w, k) ==
    IF k = 0 THEN {[i \in 1..w |-> f] : f \in {0, 255}}
    ELSE LET prev == Overridden(w, k - 1)
         IN  prev \cup {[d EXCEPT ![p] = b] : d \in prev, p \in 1..w, b \in ByteSamples}

\* -2^127 <= v <= 2^127 - 1
InI128(v) ==
    IF v.neg THEN MagCmp(v.mag, Zeros(15) \o <<128>>) <= 0
    ELSE MagCmp(v.mag, Zeros(15) \o <<128>>) < 0

\* |v| of up to 17 digits: the i128 range and values on either side of it
ValueSamples ==
    {Num(n, d) : n \in BOOLEAN, d \in Overridden(16, MaxOverride)}
    \cup {Num(n, Zeros(16) \o <<1>>) : n \in BOOLEAN}

I128Samples == {v \in ValueSamples : InI128(v)}

PatternByte(p, o) ==
    CASE p = 1 -> (o * 37 + 11) % 256
      [] p = 2 -> 255
      [] p = 3 -> IF (o + 1) % 8 = 0 THEN 128 ELSE 0
      [] OTHER -> IF (o + 1) % 8 = 0 THEN 127 ELSE 255

PatternBuf(p, len) == [len |-> len, nz |-> [o \in 0..(len - 1) |-> PatternByte(p, o)]]

Helpers == {"readU8", "readU16", "readU32", "readU64", "readI64",
            "readU128", "readI128", "readPubkey"}

ApplyHelper(h, buf, offset) ==
    CASE h = "readU8"     -> readU8(buf, offset)
      [] h = "readU16"    -> readU16(buf, offset)
      [] h = "readU32"    -> readU32(buf, offset)
      [] h = "readU64"    -> readU64(buf, offset)
      [] h = "readI64"    -> readI64(buf, offset)
      [] h = "readU128"   -> readU128(buf, offset)
      [] h = "readI128"   -> readI128(buf, offset)
      [] h = "readPubkey" -> readPubkey(buf, offset)

NoBuf == [len |-> 0, nz |-> <<>>]
NoInput == [v |-> BNZero, buf |-> NoBuf, offset |-> 0]

CodecInit ==
    /\ cop = "start"
    /\ cin = NoInput
    /\ cout = BNZero

\* encI128(value)
CodecEncode ==
    /\ cop = "start"
    /\ \E v \in ValueSamples :
        /\ cin' = [NoInput EXCEPT !.v = v]
        /\ cout' = encI128(v)
    /\ cop' = "encI128"
    /\ UNCHANGED otherThanCodec

\* readI128(encI128(value), 0)
CodecDecode ==
    /\ cop = "encI128"
    /\ cout # RangeError
    /\ cin' = [cin EXCEPT !.buf = cout]
    /\ cout' = readI128(cout, 0)
    /\ cop' = "roundtrip"
    /\ UNCHANGED otherThanCodec

\* one read helper on one buffer at one offset
CodecRead ==
    /\ cop = "start"
    /\ \E h \in Helpers, len \in 0..MaxBufLen, p \in 1..4 :
        \E offset \in -2..(len + 1) :
            /\ cop' = h
            /\ cin' = [NoInput EXCEPT !.buf = PatternBuf(p, len), !.offset = offset]
            /\ cout' = ApplyHelper(h, PatternBuf(p, len), offset)
    /\ UNCHANGED otherThanCodec

CodecNext == CodecEncode \/ CodecDecode \/ CodecRead

---------------------------------------------------------------------------
(* The params the build functions are called with.                         *)

\* how many trade calls one behaviour makes
MaxTrades == 2

Call(fn, collateralMint, amount, userIdx, lpIdx, size, slabAddress, programId) ==
    [fn |-> fn, collateralMint |-> collateralMint, amount |-> amount,
     userIdx |-> userIdx, lpIdx |-> lpIdx, size |-> size,
     slabAddress |-> slabAddress, programId |-> programId]

NoCall == Call("none", NATIVE_MINT, BNZero, 0, 0, BNZero, Addr("slabA"), Addr("programA"))

Mints == {NATIVE_MINT, Addr("mintA")}
Slabs == {Addr("slabA"), Addr("slabB")}
Programs == {Addr("programA"), Addr("programB")}

\* 10000000, the fee executeInitUser pays
FeePayment == Num(FALSE, <<128, 150, 152>>)

\* 0, 1, the fee, 2^53 - 1, 2^53, 2^64 - 1, 2^64, -1
AmountSamples ==
    {BNZero, Num(FALSE, <<1>>), FeePayment,
     Num(FALSE, <<255, 255, 255, 255, 255, 255, 31>>),
     Num(FALSE, <<0, 0, 0, 0, 0, 0, 32>>),
     Num(FALSE, [i \in 1..8 |-> 255]), Num(FALSE, Pow256(8)), Num(TRUE, <<1>>)}

IdxSamples == {0, 2, 4095, 65535, 65536, -1}
LpIdxSamples == {0, 1, 4095, 65536}
UserIdxSamples == {0, 2, 65536}

\* 1, -1, -2^127, 2^128, and around the ends of the i128 range: 2^127 - 1,
\* 2^127, -(2^127 + 1)
SizeSamples ==
    {Num(FALSE, <<1>>), Num(TRUE, <<1>>), Num(TRUE, Zeros(15) \o <<128>>),
     Num(FALSE, Pow256(16)),
     Num(FALSE, [i \in 1..16 |-> IF i = 16 THEN 127 ELSE 255]),
     Num(FALSE, Zeros(15) \o <<128>>),
     Num(TRUE, <<1>> \o Zeros(14) \o <<128>>)}

DirectCalls ==
    {Call("InitUser", m, a, 0, 0, BNZero, Addr("slabA"), Addr("programA")) :
        m \in Mints, a \in AmountSamples}
    \cup {Call(fn, m, a, u, 0, BNZero, Addr("slabA"), Addr("programA")) :
        fn \in {"Deposit", "Withdraw"}, m \in Mints, a \in AmountSamples,
        u \in IdxSamples}
    \cup {Call("Trade", Addr("mintA"), BNZero, u, l, z, sl, pr) :
        u \in UserIdxSamples, l \in LpIdxSamples, z \in SizeSamples,
        sl \in Slabs, pr \in Programs}

Blockhashes == {[blockhash |-> "h1"], [blockhash |-> "h2"]}

---------------------------------------------------------------------------
(* The handlers of the trading panel up to their call of a build function, *)
(* part_003 1126-1354.                                                     *)

Ops == {"InitUser", "Deposit", "Withdraw", "Trade"}

\* the address strings of the market config and of the slab data
AddressNames == {"slabAddress", "programId", "tokenAddress", "vaultAddress",
                 "oracleAddress"}

\* the addresses a handler parses with new PublicKey(...)
ParsedBy(op) ==
    CASE op \in {"InitUser", "Deposit"} ->
            {"slabAddress", "programId", "tokenAddress", "vaultAddress"}
      [] op = "Withdraw" -> AddressNames
      [] OTHER -> {"slabAddress", "programId", "oracleAddress"}

\* What a handler finds when it runs: whether a wallet is connected, whether
\* the vault address is known, which address string (if any) does not parse,
\* the amount typed ("empty", "zero", "ok", "huge": over 2^53 units), the
\* user's account index if there is one, the collateral mint, and for a
\* trade whether the user has capital, the size fits a number and an LP
\* account is there.
Env(connected, vaultKnown, bad, amount, hasAccount, userIdx, mint, capital, sizeOk,
    lpFound) ==
    [connected |-> connected, vaultKnown |-> vaultKnown, bad |-> bad,
     amount |-> amount, hasAccount |-> hasAccount, userIdx |-> userIdx,
     mint |-> mint, capital |-> capital, sizeOk |-> sizeOk, lpFound |-> lpFound]

NoEnv == Env(FALSE, FALSE, "none", "empty", FALSE, 0, NATIVE_MINT, FALSE, FALSE, FALSE)

PanelEnvs(op) ==
    CASE op = "InitUser" ->
            {Env(c, v, b, "ok", FALSE, 0, m, FALSE, FALSE, FALSE) :
                c \in BOOLEAN, v \in BOOLEAN, b \in AddressNames \cup {"none"},
                m \in Mints}
      [] op \in {"Deposit", "Withdraw"} ->
            {Env(c, v, b, a, h, u, m, FALSE, FALSE, FALSE) :
                c \in BOOLEAN, v \in BOOLEAN, b \in AddressNames \cup {"none"},
                a \in {"empty", "zero", "ok", "huge"}, h \in BOOLEAN, u \in {0, 2},
                m \in Mints}
      [] OTHER ->
            {Env(c, v, b, a, h, 2, Addr("mintA"), k, z, l) :
                c \in BOOLEAN, v \in BOOLEAN, b \in AddressNames \cup {"none"},
                a \in {"zero", "ok"}, h \in BOOLEAN, k \in BOOLEAN, z \in BOOLEAN,
                l \in BOOLEAN}

\* the early returns: the message set, or "ok"
PanelGuard(op, env) ==
    CASE op = "InitUser" ->
            IF ~env.connected THEN "Please connect your wallet first"
            ELSE IF ~env.vaultKnown THEN "Vault address not available. Please refresh the market data."
            ELSE "ok"
      [] op \in {"Deposit", "Withdraw"} ->
            IF ~env.connected \/ env.amount \in {"empty", "zero"} \/ ~env.hasAccount
            THEN "Please ensure wallet is connected and account is initialized"
            ELSE IF ~env.vaultKnown THEN "Vault address not available. Please refresh the market data."
            ELSE "ok"
      [] OTHER ->
            IF ~env.connected \/ env.amount \in {"empty", "zero"} \/ ~env.hasAccount
            THEN "Please ensure wallet is connected and account is initialized"
            ELSE IF ~env.capital THEN "Please deposit capital into your account first (use Deposit tab)"
            ELSE "ok"

\* (mutant) every address string is taken to parse
AddressRaisesNever(op, env) == FALSE

\* new PublicKey(string) raises for one of the addresses the handler parses
AddressRaises(op, env) == env.bad \in ParsedBy(op)

\* the status a handler shows while the build function runs
BuildingStatus(op) ==
    CASE op = "InitUser" -> "Initializing account..."
      [] op = "Deposit"  -> "Building deposit transaction..."
      [] op = "Withdraw" -> "Building withdraw transaction..."
      [] OTHER           -> "Building trade transaction..."

\* the status the catch block of a handler shows
FailedStatus(op, message) ==
    CASE op = "InitUser" -> "Init failed: " \o message
      [] op = "Deposit"  -> "Deposit failed: " \o message
      [] op = "Withdraw" -> "Withdraw failed: " \o message
      [] OTHER           -> "Trade failed: " \o message

\* what the try block raises before the build function is entered, or "ok"
PanelTry(op, env) ==
    IF op \in {"Deposit", "Withdraw"} /\ env.amount = "huge" THEN "Assertion failed"
    ELSE IF op = "Trade" /\ ~env.sizeOk THEN "Assertion failed"
    ELSE IF op = "Trade" /\ ~env.lpFound THEN "No LP available to trade against"
    ELSE IF AddressRaises(op, env) THEN "Invalid public key input"
    ELSE "ok"

\* the params the handler hands to the build function
PanelCall(op, env) ==
    CASE op = "InitUser" ->
            Call(op, env.mint, FeePayment, 0, 0, BNZero, Addr("slabA"), Addr("programA"))
      [] op \in {"Deposit", "Withdraw"} ->
            Call(op, env.mint, Num(FALSE, <<1>>), env.userIdx, 0, BNZero,
                 Addr("slabA"), Addr("programA"))
      [] OTHER ->
            Call(op, env.mint, BNZero, env.userIdx, 1, Num(TRUE, <<1>>),
                 Addr("slabA"), Addr("programA"))

---------------------------------------------------------------------------
(* The build functions, transactions.ts 72-368, one action per stretch of  *)
(* code between two awaits.                                                *)

NoUi == [via |-> "none", op |-> "none", env |-> NoEnv, txStatus |-> "none",
         isLoading |-> FALSE, sent |-> <<>>]

BuildInit ==
    /\ bpc = "idle"
    /\ bcall = NoCall
    /\ btx = NewTransaction
    /\ bio = <<>>
    /\ bout = [status |-> "none"]
    /\ bseen = {}
    /\ ui = NoUi

\* a call on the connection, how many instructions the transaction held
\* when it was made, and the reply once it has come
IoRead(method, assembled) ==
    [method |-> method, assembled |-> assembled, reply |-> "pending"]

\* the call made last is replied to
Replied(io, reply) == [io EXCEPT ![Len(io)].reply = reply]

\* The program instruction is built and added (for a withdrawal followed by
\* the close instruction), the fee payer set and getLatestBlockhash called:
\* transactions.ts 129-150, 214-237, 266-310, 331-365.
Finalize(call, before, io) ==
    IF ProgramRaises(call) # "ok"
    THEN /\ bpc' = "threw"
         /\ bout' = Threw(ProgramRaises(call))
         /\ btx' = [NewTransaction EXCEPT !.instructions = before]
         /\ bio' = io
    ELSE LET all == IF call.fn = "Withdraw"
                    THEN WithdrawInstructions(ProgramInstruction(call),
                                              CloseAccount(call), IsNativeSOL(call))
                    ELSE before \o <<ProgramInstruction(call)>>
         IN  /\ btx' = [NewTransaction EXCEPT !.instructions = all,
                                              !.feePayer = userPublicKey]
             /\ bio' = Append(io, IoRead("getLatestBlockhash", Len(all)))
             /\ bpc' = "awaitBlockhash"
             /\ bout' = bout

\* the call of a build function, up to its first await
Enter(call) ==
    /\ bcall' = call
    /\ bseen' = IF call.fn = "Trade" /\ LpPda(call) # RangeError
                THEN bseen \cup {[programId |-> call.programId,
                                  slabAddress |-> call.slabAddress,
                                  lpIdx |-> call.lpIdx, userIdx |-> call.userIdx,
                                  lpPda |-> LpPda(call)]}
                ELSE bseen
    /\ IF call.fn = "Trade" THEN Finalize(call, <<>>, bio)
       ELSE /\ bpc' = "awaitAta"
            /\ btx' = NewTransaction
            /\ bio' = bio
            /\ bout' = bout

\* a build function called with params of any kind
DirectCall ==
    /\ bpc = "idle"
    /\ ui.via = "none"
    /\ \E call \in DirectCalls : Enter(call)
    /\ ui' = [ui EXCEPT !.via = "direct"]
    /\ UNCHANGED otherThanBuild

\* executeInitUser, executeDeposit, executeWithdraw, executeTrade up to the
\* first await of the build function they call
PanelExecute ==
    /\ bpc = "idle"
    /\ ui.via = "none"
    /\ \E op \in Ops :
        \E env \in PanelEnvs(op) :
            LET run == [NoUi EXCEPT !.via = "panel", !.op = op, !.env = env]
            IN  IF PanelGuard(op, env) # "ok"
                THEN /\ ui' = [run EXCEPT !.txStatus = PanelGuard(op, env)]
                     /\ UNCHANGED <<bpc, bcall, btx, bio, bout, bseen>>
                ELSE IF PanelTry(op, env) # "ok"
                THEN /\ ui' = [run EXCEPT !.txStatus = FailedStatus(op, PanelTry(op, env))]
                     /\ UNCHANGED <<bpc, bcall, btx, bio, bout, bseen>>
                ELSE /\ ui' = [run EXCEPT !.txStatus = BuildingStatus(op), !.isLoading = TRUE]
                     /\ Enter(PanelCall(op, env))
    /\ UNCHANGED otherThanBuild

\* Token.getAssociatedTokenAddress resolves; transactions.ts 93-98,
\* 178-183, 266-310
AtaResolved ==
    /\ bpc = "awaitAta"
    /\ IF bcall.fn \in {"InitUser", "Deposit"} /\ NeedsExistenceCheck(bcall)
       THEN /\ bpc' = "awaitExists"
            /\ bio' = Append(bio, IoRead("getAccountInfo", Len(btx.instructions)))
            /\ UNCHANGED <<btx, bout>>
       ELSE Finalize(bcall, <<>>, bio)
    /\ UNCHANGED <<bcall, bseen, ui, otherThanBuild>>

\* connection.getAccountInfo(userAta) resolves; transactions.ts 98-150,
\* 183-237
ExistsResolved ==
    /\ bpc = "awaitExists"
    /\ \E ataInfo \in {"account", "null"} :
        LET created  == IF ataInfo = "null" THEN <<CreateAta(bcall)>> ELSE <<>>
            lamports == ToNumber(bcall.amount)
        IN  IF lamports # bcall.amount
            THEN /\ bpc' = "threw"
                 /\ bout' = Threw(lamports.raised)
                 /\ btx' = [btx EXCEPT !.instructions = created]
                 /\ bio' = Replied(bio, ataInfo)
            ELSE Finalize(bcall,
                          WrapInstructions(created, Transfer(bcall, lamports),
                                           SyncNative(bcall)),
                          Replied(bio, ataInfo))
    /\ UNCHANGED <<bcall, bseen, ui, otherThanBuild>>

\* connection.getAccountInfo(userAta) rejects
ExistsRejected ==
    /\ bpc = "awaitExists"
    /\ bpc' = "threw"
    /\ bout' = Threw("getAccountInfo failed")
    /\ bio' = Replied(bio, "rejected")
    /\ UNCHANGED <<bcall, btx, bseen, ui, otherThanBuild>>

\* connection.getLatestBlockhash() resolves and the transaction is returned
BlockhashResolved ==
    /\ bpc = "awaitBlockhash"
    /\ \E h \in Blockhashes :
        /\ btx' = [btx EXCEPT !.recentBlockhash = h.blockhash]
        /\ bout' = [status |-> "returned", transaction |-> btx']
        /\ bio' = Replied(bio, h.blockhash)
    /\ bpc' = "returned"
    /\ UNCHANGED <<bcall, bseen, ui, otherThanBuild>>

\* connection.getLatestBlockhash() rejects
BlockhashRejected ==
    /\ bpc = "awaitBlockhash"
    /\ bpc' = "threw"
    /\ bout' = Threw("getLatestBlockhash failed")
    /\ bio' = Replied(bio, "rejected")
    /\ UNCHANGED <<bcall, btx, bseen, ui, otherThanBuild>>

\* the handler goes on after the build: signAndSendTransaction(transaction)
PanelSend ==
    /\ bpc = "returned"
    /\ ui.via = "panel"
    /\ ui.txStatus = BuildingStatus(ui.op)
    /\ ui' = [ui EXCEPT !.txStatus = "Sending transaction...",
                        !.sent = Append(@, bout.transaction)]
    /\ UNCHANGED <<bpc, bcall, btx, bio, bout, bseen, otherThanBuild>>

\* the handler's catch and finally after a build that threw
PanelCatch ==
    /\ bpc = "threw"
    /\ ui.via = "panel"
    /\ ui.txStatus = BuildingStatus(ui.op)
    /\ ui' = [ui EXCEPT !.txStatus = FailedStatus(ui.op, bout.error), !.isLoading = FALSE]
    /\ UNCHANGED <<bpc, bcall, btx, bio, bout, bseen, otherThanBuild>>

\* a further trade is built after one that has ended
TradeAgain ==
    /\ bpc \in {"returned", "threw"}
    /\ ui.via = "direct"
    /\ bcall.fn = "Trade"
    /\ Cardinality(bseen) < MaxTrades
    /\ bpc' = "idle"
    /\ bcall' = NoCall
    /\ btx' = NewTransaction
    /\ bio' = <<>>
    /\ bout' = [status |-> "none"]
    /\ ui' = NoUi
    /\ UNCHANGED <<bseen, otherThanBuild>>

NextBuild ==
    \/ DirectCall \/ PanelExecute \/ AtaResolved \/ ExistsResolved
    \/ ExistsRejected \/ BlockhashResolved \/ BlockhashRejected
    \/ PanelSend \/ PanelCatch \/ TradeAgain

---------------------------------------------------------------------------
(* Several calls of fetchSlabData in flight at once, solana.ts 184-295.    *)
(* A call has two stretches of code: up to the await of getAccountInfo,    *)
(* and everything after it, which holds no await and so runs to its end    *)
(* before any other call goes on.  The array `accounts` is an object: the  *)
(* value a call returns names it, and what a caller sees in it is what the *)
(* array holds at the time of looking.                                     *)

\* how many calls are in flight
NumCalls == 2

CallIds == 1..NumCalls

OwnIds(live) == [s \in live |-> "own"]

\* the account data the calls may be answered with
ConcBuffers ==
    {SlabInput(fullLength, TRUE, 2, {0, 2}, OwnIds({0, 2})),
     SlabInput(fullLength, TRUE, 1, {0, 2}, OwnIds({0, 2})),
     SlabInput(fullLength, TRUE, 3, {2, 64}, OwnIds({2, 64})),
     SlabInput(fullLength, TRUE, 3, {0, 2}, [s \in {0, 2} |-> IF s = 0 THEN "over" ELSE "own"]),
     SlabInput(fullLength, FALSE, 2, {0, 2}, OwnIds({0, 2})),
     SlabInput(1314, TRUE, 2, {0, 2}, OwnIds({0, 2}))}

NoBuffer == [len |-> 0, nz |-> <<>>]

\* (mutant) one array declared outside fetchSlabData serves every call
AccountsOfModule(c) == NumCalls + 1

\* solana.ts 246, const accounts: AccountData[] = []: an array of the call's
\* own
AccountsOf(c) == c

ConcInit ==
    /\ calls = [c \in CallIds |->
                  [pc |-> "idle", data |-> NoBuffer, accounts |-> 0,
                   result |-> [status |-> "none"]]]
    /\ heap = [r \in 0..(NumCalls + 1) |-> <<>>]

\* fetchSlabData is called: lines 188-189 up to the await
CallStart ==
    \E c \in CallIds :
        /\ calls[c].pc = "idle"
        /\ calls' = [calls EXCEPT ![c].pc = "awaiting"]
        /\ UNCHANGED <<heap, otherThanConc>>

\* getAccountInfo resolves with an account
CallFetched ==
    \E c \in CallIds :
        /\ calls[c].pc = "awaiting"
        /\ \E buf \in ConcBuffers :
            calls' = [calls EXCEPT ![c].pc = "fetched", ![c].data = buf]
        /\ UNCHANGED <<heap, otherThanConc>>

\* getAccountInfo resolves with null: lines 191-193
CallFetchedNull ==
    \E c \in CallIds :
        /\ calls[c].pc = "awaiting"
        /\ calls' = [calls EXCEPT ![c].pc = "threw",
                                   ![c].result = Threw("Slab account not found")]
        /\ UNCHANGED <<heap, otherThanConc>>

\* lines 195-295: the checks, the scan pushing onto `accounts`, the return
CallDecode ==
    \E c \in CallIds :
        /\ calls[c].pc = "fetched"
        /\ LET buf == calls[c].data
               ref == AccountsOf(c)
           IN  IF CheckMagic(buf) # "ok"
               THEN /\ calls' = [calls EXCEPT ![c].pc = "threw",
                                              ![c].result = Threw(CheckMagic(buf))]
                    /\ heap' = heap
               ELSE IF ReadConfig(buf) # "ok"
               THEN /\ calls' = [calls EXCEPT ![c].pc = "threw",
                                              ![c].result = Threw(ReadConfig(buf))]
                    /\ heap' = heap
               ELSE LET scanned == ScanWords(buf, NumUsedAccounts(buf))
                    IN  /\ heap' = [heap EXCEPT ![ref] = @ \o scanned.accounts]
                        /\ calls' = [calls EXCEPT
                              ![c].pc = "returned",
                              ![c].accounts = ref,
                              ![c].result =
                                  SlabData(buf, [scanned EXCEPT !.accounts = heap'[ref]])]
        /\ UNCHANGED otherThanConc

NextConc == CallStart \/ CallFetched \/ CallFetchedNull \/ CallDecode

---------------------------------------------------------------------------
(* The account indices the trading panel takes from the snapshot,          *)
(* part_003 565-574 and 1336-1354.                                         *)

\* the buffer with the kind byte of the slots in lps set to 1 (LP)
WithLps(buf, lps) ==
    [buf EXCEPT !.nz = [o \in DOMAIN buf.nz |->
        IF \E s \in lps : o = accountsOffset + s * ACCOUNT_SIZE + ACCT_KIND_OFF
        THEN 1 ELSE buf.nz[o]]]

PanelLive == {{0, 2}, {2, 64}, {0, 2, 64}}

\* the slabs the panel is shown: every live slot stores its own index, or
\* every live slot stores another number, and any of the live slots are LPs
PanelBuffers ==
    {WithLps(SlabInput(fullLength, TRUE, 3, live, [s \in live |-> k]), lps) :
        live \in PanelLive, k \in {"own", "other"}, lps \in SUBSET {0, 2, 64}}

\* the owner the sample buffers store in a slot, and an owner of no slot
OwnerOfSlot(s) ==
    readPubkey(SlabInput(fullLength, TRUE, 3, {s}, [x \in {s} |-> "own"]),
               accountsOffset + s * ACCOUNT_SIZE + ACCT_OWNER_OFF)

Wallets == {OwnerOfSlot(s) : s \in {0, 2, 64}} \cup {PublicKeyOf(BufOfSeq(<<7>>))}

\* the places in accounts of the records find() tests true on
OwnedBy(accounts, publicKey) ==
    {j \in 1..Len(accounts) : accounts[j].owner = publicKey}

LpRecords(accounts) ==
    {j \in 1..Len(accounts) : accounts[j].kind = Num(FALSE, <<1>>)}

First(S) == CHOOSE j \in S : \A k \in S : j <= k

\* (mutant) the place of the record in the array, as findIndex gives it
userAccountIdxByPlace(accounts, publicKey) == First(OwnedBy(accounts, publicKey)) - 1

\* part_003 565-569, for a wallet that has a record:
\* accounts.find(a => a.owner.equals(publicKey)).accountId.toNumber()
userAccountIdx(accounts, publicKey) ==
    accounts[First(OwnedBy(accounts, publicKey))].accountId

\* part_003 1337: accounts.find(a => a.kind === 1)
lpAccount(accounts) == accounts[First(LpRecords(accounts))]

NoInstruction == [kind |-> "none"]

PanelIdxInit ==
    panel = [pc |-> "idle", data |-> NoBuffer, accounts |-> <<>>,
             publicKey |-> PublicKeyOf(BufOfSeq(<<>>)), op |-> "none",
             instruction |-> NoInstruction]

\* market data arrives and a wallet is connected
SnapshotShown ==
    /\ panel.pc = "idle"
    /\ \E buf \in PanelBuffers, key \in Wallets :
        panel' = [panel EXCEPT !.pc = "shown", !.data = buf,
                               !.accounts = DecodeSlab(buf).slab.accounts,
                               !.publicKey = key]
    /\ UNCHANGED otherThanPanel

\* executeDeposit, executeWithdraw or executeTrade runs, up to the
\* instruction its build function makes
HandlerBuilds ==
    /\ panel.pc = "shown"
    /\ \E op \in {"Deposit", "Withdraw", "Trade"} :
        LET accounts == panel.accounts
            owned    == OwnedBy(accounts, panel.publicKey)
        IN  IF owned = {}
            THEN panel' = [panel EXCEPT !.pc = "refused", !.op = op]
            ELSE IF op = "Trade" /\ accounts[First(owned)].capital = BNZero
            THEN panel' = [panel EXCEPT !.pc = "refused", !.op = op]
            ELSE IF op = "Trade" /\ LpRecords(accounts) = {}
            THEN panel' = [panel EXCEPT !.pc = "failed", !.op = op]
            ELSE LET lpIdx == IF op = "Trade" THEN lpAccount(accounts).accountId ELSE 0
                     call  == Call(op, Addr("mintA"), Num(FALSE, <<1>>),
                                   userAccountIdx(accounts, panel.publicKey), lpIdx,
                                   Num(TRUE, <<1>>), Addr("slabA"), Addr("programA"))
                 IN  panel' = [panel EXCEPT !.pc = "built", !.op = op,
                                            !.instruction = ProgramInstruction(call)]
    /\ UNCHANGED otherThanPanel

NextPanel == SnapshotShown \/ HandlerBuilds

---------------------------------------------------------------------------
(***************************************************************************)
(* The PIN that protects the saved keypairs: TradingPanel (part_003) and   *)
(* PinModal.tsx.  `pinm` holds what is in localStorage and sessionStorage, *)
(* the React state of the panel and of the modal, and the auto-submit      *)
(* timer with the values its handler closed over.  A key is written as the *)
(* PIN that encrypted it: decryptData succeeds exactly with that PIN.      *)
(***************************************************************************)

\* part_003 977, 1088: newAttempts >= 10
WipeLimit == 10

\* part_003 953, 1095, 2259: failedAttempts === 9
ChallengeAt == 9

\* PinModal.tsx 51, 54, 116, 119: a PIN has four digits
PinLength == 4

\* keypairs saved at most
MaxKeys == 2

\* wrong PINs followed at most
MaxTried == 11

\* the PINs typed: the owner's and another one
Pins == {<<1, 1, 1, 1>>, <<1, 1, 1, 2>>}

PinPrefixes == {SubSeq(p, 1, n) : p \in Pins, n \in 0..PinLength}

NoKeypair == [kind |-> "none"]

\* part_003 826: { label: '', key: encryptedKey, publicKey }
SavedKeypair(key) == [kind |-> "saved", key |-> key]

\* part_003 738-742: a keypair typed in, its key in the clear
NewKeypair == [kind |-> "new"]

\* part_003 424-434 and PinModal.tsx 31-34: the state after mount, over
\* the storage given
Mounted(stored, saved, session) ==
    [stored |-> stored, saved |-> saved, session |-> session,
     failedAttempts |-> 0, mathProblem |-> FALSE,
     pinModalMode |-> "set", showPinModal |-> FALSE,
     pendingKeypair |-> NoKeypair, oldPin |-> {},
     pin |-> <<>>, mathSolved |-> FALSE, timer |-> {},
     answered |-> FALSE, tried |-> 0, did |-> "mount"]

\* localStorage 'pin-failed-attempts' as a number; part_003 480-486 leaves
\* failedAttempts at its initial 0 when the item is absent
Counter(s) == IF s.stored = {} THEN 0 ELSE CHOOSE n \in s.stored : TRUE

PinInit == pinm = Mounted({}, <<>>, {})

\* part_003 2259: requireMathChallenge
requireMathChallenge(s) == s.failedAttempts = ChallengeAt /\ s.mathProblem

\* PinModal.tsx 43, 112, 259, 273: requireMathChallenge && !mathSolved
Blocked(s) == requireMathChallenge(s) /\ ~s.mathSolved

\* PinModal.tsx 76-80 and 89-96: the effects run when the modal opens
Opened(s, mode) ==
    [s EXCEPT !.pinModalMode = mode, !.showPinModal = TRUE,
              !.pin = <<>>, !.mathSolved = FALSE]

\* the step `did` took s to t; `answered` is kept while the counter keeps
\* its value
Did(s, t, did) ==
    [t EXCEPT !.did = did,
              !.answered = IF Counter(t) = Counter(s) THEN t.answered ELSE FALSE]

\* part_003 480-486 and 526-552: the page is loaded again, in the same tab
\* (sessionStorage kept) or in a new one (sessionStorage empty)
Reload ==
    /\ \E keepSession \in BOOLEAN :
        LET session == IF keepSession THEN pinm.session ELSE {}
            loaded  == [Mounted(pinm.stored, pinm.saved, session)
                           EXCEPT !.failedAttempts = Counter(pinm),
                                  !.answered = pinm.answered,
                                  !.tried = pinm.tried]
        IN  pinm' = Did(pinm, loaded, "ui")
    /\ UNCHANGED otherThanPin

\* part_003 711-766 with saveKeypair ticked, and 768-802
handlePrivateKeyConnect ==
    /\ ~pinm.showPinModal
    /\ Len(pinm.saved) < MaxKeys
    /\ LET pending == [pinm EXCEPT !.pendingKeypair = NewKeypair]
       IN  IF pinm.session = {}
           THEN pinm' = Did(pinm, Opened(pending, "set"), "ui")
           ELSE \E p \in pinm.session :
                   pinm' = Did(pinm, [pending EXCEPT !.saved = Append(@, p)], "ui")
    /\ UNCHANGED otherThanPin

\* part_003 819-830: handleLoadSavedKeypair of a saved, encrypted keypair
handleLoadSavedKeypair ==
    /\ ~pinm.showPinModal
    /\ \E i \in 1..Len(pinm.saved) :
        pinm' = Did(pinm, Opened([pinm EXCEPT !.pendingKeypair =
                                      SavedKeypair(pinm.saved[i])], "unlock"),
                    "ui")
    /\ UNCHANGED otherThanPin

\* part_003 888-895: handleChangePin
handleChangePin ==
    /\ ~pinm.showPinModal
    /\ pinm.saved # <<>>
    /\ pinm' = Did(pinm, Opened(pinm, "change-verify"), "ui")
    /\ UNCHANGED otherThanPin

\* part_003 948-957 ... : what handlePinSubmit closed over when the timer
\* was set
Closure(s, pin) ==
    [pin |-> pin, failedAttempts |-> s.failedAttempts,
     mathProblem |-> s.mathProblem, pinModalMode |-> s.pinModalMode,
     pendingKeypair |-> s.pendingKeypair, oldPin |-> s.oldPin]

\* PinModal.tsx 41-58 and 110-126: a digit is typed or clicked
handleNumberClick ==
    /\ pinm.showPinModal
    /\ ~Blocked(pinm)
    /\ Len(pinm.pin) < PinLength
    /\ \E d \in 0..9 :
        LET newPin == Append(pinm.pin, d)
        IN  /\ newPin \in PinPrefixes
            /\ IF Len(newPin) = PinLength
               THEN /\ pinm.timer = {}
                    /\ pinm' = Did(pinm, [pinm EXCEPT !.pin = newPin,
                                             !.timer = {Closure(pinm, newPin)}],
                                   "ui")
               ELSE pinm' = Did(pinm, [pinm EXCEPT !.pin = newPin], "ui")
    /\ UNCHANGED otherThanPin

\* PinModal.tsx 59-63 and 128-130, 259: handleBackspace
handleBackspace ==
    /\ pinm.showPinModal
    /\ ~Blocked(pinm)
    /\ pinm.pin # <<>>
    /\ pinm' = Did(pinm, [pinm EXCEPT !.pin = SubSeq(@, 1, Len(@) - 1)], "ui")
    /\ UNCHANGED otherThanPin

\* PinModal.tsx 98-106 with part_003 518-523: the answer typed is right or
\* wrong
handleMathSubmit ==
    /\ pinm.showPinModal
    /\ Blocked(pinm)
    /\ \E right \in BOOLEAN :
        IF pinm.mathProblem /\ right
        THEN pinm' = [Did(pinm, [pinm EXCEPT !.mathSolved = TRUE], "ui")
                         EXCEPT !.answered = TRUE]
        ELSE pinm' = Did(pinm, pinm, "ui")
    /\ UNCHANGED otherThanPin

\* part_003 2237-2243: onClose
onClose ==
    /\ pinm.showPinModal
    /\ pinm' = Did(pinm, [pinm EXCEPT !.showPinModal = FALSE, !.oldPin = {},
                                      !.pinModalMode = "set",
                                      !.mathProblem = FALSE], "ui")
    /\ UNCHANGED otherThanPin

\* part_003 506-511: the removals of wipeAllKeypairs, the session PIN kept
wipeKeepingSession(s) ==
    [s EXCEPT !.saved = <<>>, !.stored = {}, !.failedAttempts = 0, !.tried = 0]

\* part_003 506-511: the removals of wipeAllKeypairs
wipeAllKeypairs(s) ==
    [s EXCEPT !.saved = <<>>, !.stored = {}, !.session = {},
              !.failedAttempts = 0, !.tried = 0]

\* part_003 971-984 and 1081-1101: a PIN that did not decrypt.  `wallet`
\* and disconnectWallet (512-513) are declared nowhere in the file, so
\* wipeAllKeypairs either returns (the modal is then closed) or raises
\* after its removals (the outer catch at 1104 leaves the modal as it is).
Rejected(s, c, challenge) ==
    LET newAttempts == c.failedAttempts + 1
        counted == [s EXCEPT !.failedAttempts = newAttempts,
                             !.stored = {newAttempts},
                             !.tried = @ + 1, !.pin = <<>>]
    IN  IF newAttempts >= WipeLimit
        THEN {Did(s, [wipeAllKeypairs(counted) EXCEPT !.showPinModal = open], "wiped") :
                 open \in {FALSE, s.showPinModal}}
        ELSE IF challenge /\ newAttempts = ChallengeAt
        THEN {Did(s, [counted EXCEPT !.mathProblem = TRUE], "rejected")}
        ELSE {Did(s, counted, "rejected")}

\* part_003 897-926 and 991-1006: every saved key is decrypted with the
\* old PIN and encrypted with the new one, or nothing is written
reencryptAllKeypairs(s, oldPin, pin) ==
    IF \A i \in 1..Len(s.saved) : s.saved[i] \in oldPin
    THEN {Did(s, [s EXCEPT !.saved = [i \in 1..Len(s.saved) |-> pin],
                           !.session = {pin}, !.failedAttempts = 0,
                           !.stored = {0}, !.showPinModal = FALSE,
                           !.oldPin = {}, !.tried = 0], "changed")}
    ELSE {Did(s, [s EXCEPT !.pin = <<>>], "changeFailed")}

\* part_003 948-1107: handlePinSubmit(c.pin) with the state it closed over,
\* as the set of states it can leave
handlePinSubmit(s, c) ==
    IF c.failedAttempts = ChallengeAt /\ ~c.mathProblem /\ c.pinModalMode = "unlock"
    THEN {Did(s, [s EXCEPT !.mathProblem = TRUE], "challenge")}
    ELSE IF c.pinModalMode = "change-verify"
    THEN IF s.saved = <<>>
         THEN {Did(s, s, "noKeys")}
         ELSE IF s.saved[1] = c.pin
         THEN {Did(s, [s EXCEPT !.oldPin = {c.pin}, !.pinModalMode = "change-new",
                                !.pin = <<>>, !.mathSolved = FALSE,
                                !.tried = 0], "verified")}
         ELSE Rejected(s, c, FALSE)
    ELSE IF c.pinModalMode = "change-new"
    THEN IF c.oldPin = {}
         THEN {Did(s, s, "noOldPin")}
         ELSE reencryptAllKeypairs(s, c.oldPin, c.pin)
    ELSE IF c.pinModalMode = "set"
    THEN LET reset == [s EXCEPT !.session = {c.pin}, !.showPinModal = FALSE,
                                !.failedAttempts = 0, !.stored = {0}]
         IN  IF c.pendingKeypair = NewKeypair
             THEN {Did(s, [reset EXCEPT !.saved = Append(@, c.pin),
                                        !.pendingKeypair = NoKeypair], "set")}
             ELSE {Did(s, [reset EXCEPT !.pendingKeypair = NoKeypair], "set")}
    ELSE IF c.pendingKeypair = NoKeypair
    THEN {Did(s, s, "noPending")}
    ELSE IF c.pendingKeypair = SavedKeypair(c.pin)
    THEN {Did(s, [s EXCEPT !.failedAttempts = 0, !.stored = {0},
                           !.mathProblem = FALSE, !.showPinModal = FALSE,
                           !.pendingKeypair = NoKeypair, !.session = {c.pin},
                           !.tried = 0], "decrypted")}
    ELSE Rejected(s, c, TRUE)

\* PinModal.tsx 55, 121-123: the timer set by the fourth digit fires
Submit ==
    /\ pinm.tried < MaxTried
    /\ \E c \in pinm.timer :
        pinm' \in handlePinSubmit([pinm EXCEPT !.timer = {}], c)
    /\ UNCHANGED otherThanPin

NextPin ==
    \/ Reload \/ handlePrivateKeyConnect \/ handleLoadSavedKeypair \/ handleChangePin
    \/ handleNumberClick \/ handleBackspace \/ handleMathSubmit \/ onClose \/ Submit


---------------------------------------------------------------------------
(***************************************************************************)
(* useMarketData (part_000).  `market` holds the market passed to the      *)
(* hook, its React state, the interval set by its effect and the calls of  *)
(* fetchData that await fetchSlabData.  A snapshot is written as the       *)
(* market it was fetched for and the position of its fetch in the order in *)
(* which the fetches started.                                              *)
(***************************************************************************)

\* the markets that can be selected; 0 is `null`
NumMarkets == 2

\* calls of fetchData awaiting at the same time, at most
MaxFlights == 2

\* calls of fetchData followed, at most
MaxFetches == 4

NoMarket == 0

\* part_000 10-17: the state after mount, no market given yet
MarketInit ==
    market = [selected |-> NoMarket, data |-> {}, stats |-> {},
              loadingState |-> "idle", error |-> FALSE,
              interval |-> {}, flights |-> {}, started |-> 0,
              failing |-> FALSE, newest |-> 0]

\* part_000 28-35: fetchData, closed over market m, up to its await; `timer`
\* tells whether the interval called it
fetchData(s, m, timer) ==
    IF m = NoMarket
    THEN s
    ELSE [s EXCEPT !.loadingState = "loading", !.error = FALSE,
                   !.started = @ + 1,
                   !.flights = @ \cup {[market |-> m, seq |-> s.started + 1,
                                        timer |-> timer, failing |-> s.failing]}]

\* fetchData can be followed once more
CanFetch == market.started < MaxFetches /\ Cardinality(market.flights) < MaxFlights

\* part_000 75-92: the effect, its cleanup first, when the hook is given
\* another market
MarketChanged ==
    /\ CanFetch
    /\ \E m \in 0..NumMarkets :
        /\ m # market.selected
        /\ LET cleared == [market EXCEPT !.selected = m, !.interval = {}]
           IN  IF m = NoMarket
               THEN market' = cleared
               ELSE market' = [fetchData(cleared, m, FALSE) EXCEPT !.interval = {m}]
    /\ UNCHANGED otherThanMarket

\* part_000 84: the interval fires
IntervalFires ==
    /\ CanFetch
    /\ \E m \in market.interval : market' = fetchData(market, m, TRUE)
    /\ UNCHANGED otherThanMarket

\* part_000 100: refetch, the fetchData of the market now selected
Refetch ==
    /\ CanFetch
    /\ market.selected # NoMarket
    /\ market' = fetchData(market, market.selected, FALSE)
    /\ UNCHANGED otherThanMarket

\* part_000 37-66: fetchSlabData resolved for the call f
Fetched(s, f) ==
    [s EXCEPT !.data = {[market |-> f.market, seq |-> f.seq]},
              !.stats = {[market |-> f.market, seq |-> f.seq]},
              !.loadingState = "success",
              !.flights = @ \ {f}, !.failing = FALSE,
              !.newest = IF f.seq > @ THEN f.seq ELSE @]

\* part_000 67-71: fetchSlabData rejected for the call f
FetchFailed(s, f) ==
    [s EXCEPT !.loadingState = "error", !.error = TRUE,
              !.flights = @ \ {f}, !.failing = TRUE]

FetchResolves ==
    /\ \E f \in market.flights : market' = Fetched(market, f)
    /\ UNCHANGED otherThanMarket

FetchRejects ==
    /\ \E f \in market.flights : market' = FetchFailed(market, f)
    /\ UNCHANGED otherThanMarket

NextMarket ==
    MarketChanged \/ IntervalFires \/ Refetch \/ FetchResolves \/ FetchRejects

---------------------------------------------------------------------------
(***************************************************************************)
(* WalletProvider (WalletContext.tsx).  `wallet` holds its React state,    *)
(* the 'wallet-auto-reconnect' item of localStorage, the calls that await  *)
(* a browser wallet, and the kind of the step last taken.                  *)
(***************************************************************************)

\* WalletContext.tsx 70-78: the state after mount
WalletInit ==
    wallet = [walletType |-> "none", publicKey |-> {}, isConnected |-> FALSE,
              isConnecting |-> FALSE, error |-> {}, keypair |-> {},
              flag |-> FALSE, awaiting |-> {}, did |-> "mount"]

\* the secret keys handed to connectKeypair: Keypair.fromSecretKey accepts
\* the first two and raises on the third
SecretKeys == {[key |-> "keyA", length |-> 64, valid |-> TRUE],
               [key |-> "keyB", length |-> 64, valid |-> TRUE],
               [key |-> "keyC", length |-> 64, valid |-> FALSE],
               [key |-> "keyD", length |-> 32, valid |-> FALSE]}

\* the contents handed to connectFromJson: text that does not parse, and
\* the shapes the function tells apart
JsonContents ==
    {[shape |-> "malformed"]} \cup
    {[shape |-> shape, secretKey |-> k] :
        shape \in {"array", "secretKey", "_keypair", "other"}, k \in SecretKeys}

\* WalletContext.tsx 159-164, 236-241, 254-257, 287-290
Failed(s, message, connecting) ==
    [s EXCEPT !.error = {message}, !.isConnecting = connecting,
              !.did = "connectFailed"]

\* WalletContext.tsx 154-158 and 231-235, then 163 and 240
BrowserConnected(s, type) ==
    [s EXCEPT !.publicKey = {type}, !.walletType = type, !.isConnected = TRUE,
              !.flag = TRUE, !.isConnecting = FALSE, !.did = "connected"]

\* WalletContext.tsx 139-150 and 167-179: up to the await on the provider
connectStart(type, message) ==
    /\ type \notin wallet.awaiting
    /\ \E installed \in BOOLEAN :
        IF installed
        THEN wallet' = [wallet EXCEPT !.isConnecting = TRUE, !.error = {},
                                      !.awaiting = @ \cup {type},
                                      !.did = "connecting"]
        ELSE wallet' = Failed(wallet, message, FALSE)
    /\ UNCHANGED otherThanWallet

connectPhantom == connectStart("phantom", "Phantom wallet not installed")

connectSolflare == connectStart("solflare", "Solflare wallet not installed")

\* WalletContext.tsx 150-164: provider.connect() settled
PhantomSettled ==
    /\ "phantom" \in wallet.awaiting
    /\ LET s == [wallet EXCEPT !.awaiting = @ \ {"phantom"}]
       IN  \E outcome \in {"resolved", "rejected"} :
              IF outcome = "resolved"
              THEN wallet' = BrowserConnected(s, "phantom")
              ELSE wallet' = Failed(s, "Failed to connect to Phantom", FALSE)
    /\ UNCHANGED otherThanWallet

\* WalletContext.tsx 179-241: provider.connect() settled; the publicKey of
\* the provider is of a handled format, missing, or of no handled format
SolflareSettled ==
    /\ "solflare" \in wallet.awaiting
    /\ LET s == [wallet EXCEPT !.awaiting = @ \ {"solflare"}]
       IN  \E outcome \in {"resolved", "rejected", "missing", "unhandled"} :
              IF outcome = "resolved"
              THEN wallet' = BrowserConnected(s, "solflare")
              ELSE IF outcome = "missing"
              THEN wallet' = Failed(s, "No publicKey returned from Solflare after connection", FALSE)
              ELSE IF outcome = "unhandled"
              THEN wallet' = Failed(s, "Unhandled Solflare publicKey format", FALSE)
              ELSE wallet' = Failed(s, "Failed to connect to Solflare", FALSE)
    /\ UNCHANGED otherThanWallet

\* WalletContext.tsx 244-258: connectKeypair(secretKey)
connectKeypair(s, secretKey) ==
    IF secretKey.valid
    THEN [s EXCEPT !.error = {}, !.keypair = {secretKey.key},
                   !.publicKey = {secretKey.key}, !.walletType = "keypair",
                   !.isConnected = TRUE, !.did = "connected"]
    ELSE Failed(s, "Invalid secret key", s.isConnecting)

\* WalletContext.tsx 260-291: connectFromJson(jsonContent)
connectFromJson(s, jsonContent) ==
    IF jsonContent.shape = "malformed"
    THEN Failed(s, "Unexpected token", s.isConnecting)
    ELSE IF jsonContent.shape = "other"
    THEN Failed(s, "Invalid JSON format. Expected array of bytes or keypair object",
                s.isConnecting)
    ELSE IF jsonContent.secretKey.length # 64
    THEN Failed(s, "Invalid secret key length", s.isConnecting)
    ELSE connectKeypair(s, jsonContent.secretKey)

KeypairGiven ==
    /\ \E secretKey \in SecretKeys : wallet' = connectKeypair(wallet, secretKey)
    /\ UNCHANGED otherThanWallet

JsonGiven ==
    /\ \E jsonContent \in JsonContents : wallet' = connectFromJson(wallet, jsonContent)
    /\ UNCHANGED otherThanWallet

\* WalletContext.tsx 304-311, the keypair kept
disconnectedKeepingKeypair(s) ==
    [s EXCEPT !.flag = FALSE, !.publicKey = {}, !.walletType = "none",
              !.isConnected = FALSE, !.error = {},
              !.did = "disconnected"]

\* WalletContext.tsx 304-311
disconnected(s) ==
    [s EXCEPT !.flag = FALSE, !.publicKey = {}, !.walletType = "none",
              !.isConnected = FALSE, !.keypair = {}, !.error = {},
              !.did = "disconnected"]

\* WalletContext.tsx 293-312: disconnect(), which awaits the provider of a
\* browser wallet when there is one and otherwise runs to its end
disconnect ==
    /\ "disconnect" \notin wallet.awaiting
    /\ \E provider \in BOOLEAN :
        IF wallet.walletType \in {"phantom", "solflare"} /\ provider
        THEN wallet' = [wallet EXCEPT !.awaiting = @ \cup {"disconnect"},
                                      !.did = "disconnecting"]
        ELSE wallet' = disconnected(wallet)
    /\ UNCHANGED otherThanWallet

\* WalletContext.tsx 296-311: provider.disconnect() resolved or rejected
DisconnectSettled ==
    /\ "disconnect" \in wallet.awaiting
    /\ wallet' = disconnected([wallet EXCEPT !.awaiting = @ \ {"disconnect"}])
    /\ UNCHANGED otherThanWallet

NextWallet ==
    \/ connectPhantom \/ connectSolflare \/ PhantomSettled \/ SolflareSettled
    \/ KeypairGiven \/ JsonGiven \/ disconnect \/ DisconnectSettled

Init ==
    /\ SlabInit /\ CodecInit /\ BuildInit /\ ConcInit /\ PanelIdxInit
    /\ PinInit /\ MarketInit /\ WalletInit

\* the wallet provider
SpecWallet == Init /\ [][NextWallet]_vars

\* useMarketData with its interval and its fetches in flight
SpecMarket == Init /\ [][NextMarket]_vars

\* the PIN modal and the storage behind it
SpecPin == Init /\ [][NextPin]_vars

\* the trading panel from snapshot to instruction
SpecPanel == Init /\ [][NextPanel]_vars

\* fetchSlabData called several times without waiting
SpecConc == Init /\ [][NextConc]_vars

\* the build functions and the handlers that call them
SpecBuild == Init /\ [][NextBuild]_vars

\* the codec alone
SpecCodec == Init /\ [][CodecNext]_vars

\* fetchSlabData
Next == Fetch \/ FetchNull \/ Decode

Spec == Init /\ [][Next]_vars

\* fetchSlabData with the scan taken one iteration at a time
SpecScan == Init /\ [][NextScan]_vars

---------------------------------------------------------------------------
(* C1: for every v with -2^127 <= v <= 2^127 - 1, readI128 at offset 0 of  *)
(* the 16 bytes encI128(v) produced returns exactly v.                     *)
C1_RoundTrip ==
    (cop = "roundtrip" /\ InI128(cin.v)) => (cout = cin.v)

I128Min == Num(TRUE, Zeros(15) \o <<128>>)
I128Max == Num(FALSE, [i \in 1..16 |-> IF i = 16 THEN 127 ELSE 255])

\* i128::MIN went through encI128 (carry across all 16 bytes) and came back
C1_Witness ==
    /\ cop = "roundtrip"
    /\ cin.v = I128Min
    /\ cin.buf = BufOfSeq(Zeros(15) \o <<128>>)
    /\ cout = I128Min

---------------------------------------------------------------------------
(* What the read helpers are to return, stated on the bytes.               *)

HelperWidth(h) ==
    CASE h = "readU8"   -> 1
      [] h = "readU16"  -> 2
      [] h = "readU32"  -> 4
      [] h \in {"readU64", "readI64"}   -> 8
      [] h \in {"readU128", "readI128"} -> 16
      [] OTHER -> 32

HelperSigned(h) == h \in {"readI64", "readI128"}

\* 2^(8w) - u for the w bytes u: every byte inverted, plus one
RECURSIVE PlusOne(_, _)
PlusOne(d, i) ==
    IF i > Len(d) THEN d
    ELSE IF d[i] = 255 THEN PlusOne([d EXCEPT ![i] = 0], i + 1)
    ELSE [d EXCEPT ![i] = d[i] + 1]

Complement(bytes) == PlusOne([i \in 1..Len(bytes) |-> 255 - bytes[i]], 1)

InRange(buf, offset, w) == offset >= 0 /\ offset + w <= buf.len

LittleEndianValue(h, buf, offset) ==
    LET w     == HelperWidth(h)
        bytes == [i \in 1..w |-> ByteAt(buf, offset + i - 1)]
    IN  IF h = "readPubkey" THEN bytes
        ELSE IF HelperSigned(h) /\ bytes[w] >= 128
        THEN [neg |-> TRUE, mag |-> Trim(Complement(bytes))]
        ELSE [neg |-> FALSE, mag |-> Trim(bytes)]

(* C7: every read helper returns zero (the all-zero address for            *)
(* readPubkey) when offset < 0 or offset + width > length, and otherwise   *)
(* the little-endian value of exactly the width bytes at offset, the       *)
(* signed readers less 2^width exactly when the top bit of the most        *)
(* significant byte is set; no helper raises.                              *)
C7_ReadHelpers ==
    cop \in Helpers =>
        /\ cout # RangeError
        /\ IF InRange(cin.buf, cin.offset, HelperWidth(cop))
           THEN cout = LittleEndianValue(cop, cin.buf, cin.offset)
           ELSE cout = (IF cop = "readPubkey" THEN Zeros(32) ELSE BNZero)

\* readI128 of sixteen bytes 00 .. 00 80 00 .. 00 80 at offset 1 of a longer
\* buffer: a negative value read in range, next to the end of the buffer
C7_Witness ==
    /\ cop = "readI128"
    /\ cin.offset = cin.buf.len - 16
    /\ cin.offset > 0
    /\ cout.neg
    /\ cout.mag # <<>>

\* a read that starts in range and ends past the buffer yields zero
C7_WitnessPast ==
    /\ cop = "readU64"
    /\ cin.offset >= 0
    /\ cin.offset < cin.buf.len
    /\ cin.offset + 8 > cin.buf.len
    /\ cout = BNZero

---------------------------------------------------------------------------
(* The slab as the layout describes it, stated on the bytes of data.       *)

Finished == pc \in {"returned", "threw"}

MagicBytes == <<84, 65, 76, 79, 67, 82, 69, 80>>

MagicMatches(buf) == buf.len >= 8 /\ Bytes(buf, 0, 8) = MagicBytes

\* The slots whose bitmap bit is 1.  A nonzero bitmap byte is a written
\* byte, so the bits of the written bytes are all the bits there are.
LiveSlots(buf) ==
    {i \in {8 * (o - 800) + b :
                o \in {x \in DOMAIN buf.nz : x >= 800 /\ x < 1312 /\ x < buf.len},
                b \in 0..7} :
        (ByteAt(buf, 800 + (i \div 8)) \div (2 ^ (i % 8))) % 2 = 1}

\* accountsBase + i * 240, accountsBase = 392 + 9136
SlotStart(i) == (392 + 9136) + i * 240

Fits(buf, i) == SlotStart(i) + 240 <= buf.len

StoredId(buf, i) == LittleEndianValue("readU64", buf, SlotStart(i))

\* the value of a magnitude of at most three digits
Small(mag) == Digit(mag, 1) + 256 * Digit(mag, 2) + 65536 * Digit(mag, 3)

AtMostCeiling(n) == Len(n.mag) <= 3 /\ Small(n.mag) <= 1000000
BelowCeiling(n) == Len(n.mag) <= 3 /\ Small(n.mag) < 1000000

\* numUsedAccounts as stored: the u16 at 392 + 920, 0 when it is cut off
NumUsedOf(buf) ==
    IF 1314 <= buf.len THEN ByteAt(buf, 1312) + 256 * ByteAt(buf, 1313) ELSE 0

\* the record of slot i, every field at its offset of the layout table
RecordAt(buf, i) ==
    LET F(h, off) == LittleEndianValue(h, buf, SlotStart(i) + off)
    IN  [accountId           |-> i,
         capital             |-> F("readU128", 8),
         kind                |-> F("readU8", 24),
         pnl                 |-> F("readI128", 32),
         reservedPnl         |-> F("readU64", 48),
         warmupStartedAtSlot |-> F("readU64", 56),
         warmupSlopePerStep  |-> F("readU128", 64),
         positionSize        |-> F("readI128", 80),
         entryPrice          |-> F("readU64", 96),
         fundingIndex        |-> F("readI128", 104),
         matcherProgram      |-> F("readPubkey", 120),
         matcherContext      |-> F("readPubkey", 152),
         owner               |-> F("readPubkey", 184),
         feeCredits          |-> F("readI128", 216),
         lastFeeSlot         |-> F("readU64", 232)]

Accounts == result.slab.accounts
Ids == {Accounts[j].accountId : j \in 1..Len(Accounts)}
Parsed == {result.locals.parsed[j] : j \in 1..Len(result.locals.parsed)}

\* the live slots that lie within the buffer and pass the sanity check
Eligible(buf) ==
    {i \in LiveSlots(buf) : Fits(buf, i) /\ AtMostCeiling(StoredId(buf, i))}

---------------------------------------------------------------------------
(* C2: whenever the first 8 bytes differ from the magic, fetchSlabData     *)
(* fails with the magic-mismatch error and yields no SlabData, whatever    *)
(* the remaining bytes contain.                                            *)
C2_MagicGate ==
    (Finished /\ data.len >= 8 /\ Bytes(data, 0, 8) # MagicBytes) =>
        /\ pc = "threw"
        /\ result = [status |-> "threw", error |-> "Invalid magic"]

\* a whole slab with live accounts and only the magic corrupted was refused
C2_Witness ==
    /\ pc = "threw"
    /\ result.error = "Invalid magic"
    /\ data.len = fullLength
    /\ Cardinality(LiveSlots(data)) = NumSlots
    /\ Bytes(data, 0, 7) = SubSeq(MagicBytes, 1, 7)

(* C3 as stated: a buffer with exactly k bitmap bits set yields exactly k  *)
(* records, the record of set bit i parsed from the 240 bytes at           *)
(* accountsBase + i * 240.                                                 *)
C3_Original ==
    pc = "returned" =>
        /\ Len(Accounts) = Cardinality(LiveSlots(data))
        /\ \A j \in 1..Len(Accounts) : Accounts[j] = RecordAt(data, Accounts[j].accountId)

(* C3 amended: ... provided numUsedAccounts >= k and every live slot lies  *)
(* within the buffer and stores an accountId of at most 1,000,000.         *)
C3_BitmapCompleteness ==
    (/\ pc = "returned"
     /\ NumUsedOf(data) >= Cardinality(LiveSlots(data))
     /\ Eligible(data) = LiveSlots(data)) =>
        /\ Len(Accounts) = Cardinality(LiveSlots(data))
        /\ Ids = LiveSlots(data)
        /\ \A j \in 1..Len(Accounts) : Accounts[j] = RecordAt(data, Accounts[j].accountId)

\* k = NumSlots bits over more than one bitmap word, k records
C3_Witness ==
    /\ pc = "returned"
    /\ NumUsedOf(data) >= Cardinality(LiveSlots(data))
    /\ Eligible(data) = LiveSlots(data)
    /\ Cardinality(LiveSlots(data)) = NumSlots
    /\ \E i, k \in LiveSlots(data) : i \div 64 # k \div 64
    /\ Len(Accounts) = NumSlots

(* C4: every record returned carries the bitmap slot index it was read     *)
(* from as accountId, also when the stored accountId differs from it.      *)
C4_IndexPrecedence ==
    pc = "returned" =>
        \A j \in 1..Len(Accounts) :
            \E i \in LiveSlots(data) :
                /\ Fits(data, i)
                /\ i \in Parsed
                /\ Accounts[j].accountId = i
                /\ Accounts[j].owner = RecordAt(data, i).owner
                /\ Accounts[j].capital = RecordAt(data, i).capital

\* a returned record whose stored accountId is not its slot index
C4_Witness ==
    /\ pc = "returned"
    /\ \E j \in 1..Len(Accounts) :
        /\ StoredId(data, Accounts[j].accountId).mag # MagOfNat(Accounts[j].accountId)
        /\ Accounts[j].accountId = 64

\* the live slots whose record the end of the buffer cuts in two
Truncated(buf) ==
    {t \in LiveSlots(buf) : SlotStart(t) < buf.len /\ buf.len < SlotStart(t) + 240}

ZeroScalars(a) ==
    /\ a.capital = BNZero /\ a.kind = BNZero /\ a.pnl = BNZero
    /\ a.reservedPnl = BNZero /\ a.warmupStartedAtSlot = BNZero
    /\ a.warmupSlopePerStep = BNZero /\ a.positionSize = BNZero
    /\ a.entryPrice = BNZero /\ a.fundingIndex = BNZero
    /\ a.feeCredits = BNZero /\ a.lastFeeSlot = BNZero

(* C5 as stated: when the buffer ends in the middle of a live slot's       *)
(* record, fetchSlabData does not raise, every live record wholly before   *)
(* the truncation point is decoded in full, and the truncated record is    *)
(* reported with zero-valued scalar fields.                                *)
C5_Original ==
    (Finished /\ MagicMatches(data) /\ Truncated(data) # {}) =>
        /\ pc = "returned"
        /\ \A i \in LiveSlots(data) :
            Fits(data, i) => \E j \in 1..Len(Accounts) : Accounts[j] = RecordAt(data, i)
        /\ \A t \in Truncated(data) :
            \E j \in 1..Len(Accounts) :
                Accounts[j].accountId = t /\ ZeroScalars(Accounts[j])

(* C5 amended: ... fetchSlabData does not raise, the truncated record is   *)
(* left out of the result, and every live record wholly before the         *)
(* truncation point whose stored accountId is at most 1,000,000 is decoded *)
(* in full, unless numUsedAccounts records with smaller indices were       *)
(* returned already.                                                       *)
C5_BoundsLeniency ==
    (Finished /\ MagicMatches(data) /\ Truncated(data) # {}) =>
        /\ pc = "returned"
        /\ Truncated(data) \cap (Ids \cup Parsed) = {}
        /\ \A i \in Eligible(data) :
            \/ \E j \in 1..Len(Accounts) : Accounts[j] = RecordAt(data, i)
            \/ Cardinality({k \in Ids : k < i}) >= NumUsedOf(data)

\* the record of slot 64 is cut in two, those of slots 0 and 2 are returned
C5_Witness ==
    /\ pc = "returned"
    /\ Truncated(data) = {64}
    /\ Ids = {0, 2}
    /\ NumUsedOf(data) = 3

(* C6 as stated: once the magic matches, fetchSlabData never raises        *)
(* because of the buffer's length; a header, config or engine scalar whose *)
(* bytes lie past the end of the buffer (the unit scale, the last          *)
(* effective oracle price, numUsedAccounts) is reported as zero.           *)
C6_LengthNeverRaises ==
    (Finished /\ MagicMatches(data)) =>
        /\ pc = "returned"
        /\ data.len < 72 + 108 + 4 => result.slab.unitScale = BNZero
        /\ data.len < 72 + 312 + 8 => result.slab.oraclePriceE6 = BNZero
        /\ data.len < 392 + 920 + 2 => result.locals.numUsedAccounts = BNZero

(* C8 as stated: parseAccount returns no record for every slot whose       *)
(* stored accountId is >= 1,000,000 and a record for every smaller one.    *)
C8_Original ==
    pc = "returned" =>
        \A i \in Parsed : i \in Ids <=> BelowCeiling(StoredId(data, i))

(* C8 amended: parseAccount returns no record for every slot whose stored  *)
(* accountId is over 1,000,000 and a record for every stored accountId of  *)
(* at most 1,000,000; fetchSlabData leaves the refused slot out and keeps  *)
(* scanning.                                                               *)
C8_SanityCeiling ==
    pc = "returned" =>
        /\ \A i \in Parsed : i \in Ids <=> AtMostCeiling(StoredId(data, i))
        /\ \A i \in Parsed \ Ids :
            \A k \in Eligible(data) :
                k > i => (k \in Ids \/ Len(Accounts) >= NumUsedOf(data))

\* slot 0 stores 1,000,001 and is refused, slot 2 stores 1,000,000 and is
\* returned after it
C8_Witness ==
    /\ pc = "returned"
    /\ 0 \in Parsed \ Ids
    /\ 2 \in Ids
    /\ StoredId(data, 2).mag = <<64, 66, 15>>
    /\ StoredId(data, 0).mag = <<65, 66, 15>>

(* C9: fetchSlabData reads the bytes of slot i only if bit i of the bitmap *)
(* is set: no slot whose bit is 0 is handed to parseAccount, and every     *)
(* record of the output belongs to a set bit.                              *)
C9_Occupancy ==
    pc = "returned" =>
        /\ Parsed \subseteq LiveSlots(data)
        /\ Ids \subseteq Parsed

\* the scan went past slot 2, which holds a record but whose bit is 0
C9_Witness ==
    /\ pc = "returned"
    /\ Ids = {0, 64}
    /\ 2 \notin LiveSlots(data)
    /\ ByteAt(data, SlotStart(2) + 8) # 0

(* C10: the accounts returned are in strictly ascending slot-index order,  *)
(* and no slot index appears twice.                                        *)
C10_Ascending ==
    pc = "returned" =>
        \A j, k \in 1..Len(Accounts) :
            j < k => Accounts[j].accountId < Accounts[k].accountId

\* records of two bitmap words, in scan order
C10_Witness ==
    /\ pc = "returned"
    /\ Len(Accounts) = 3
    /\ Accounts[1].accountId = 0
    /\ Accounts[2].accountId = 2
    /\ Accounts[3].accountId = 64

---------------------------------------------------------------------------
Words == result.locals.words

StrictlyAscending(s) == \A j \in 1..(Len(s) - 1) : s[j] < s[j + 1]

\* how many records were pushed before the scan came to slot i
PushedBefore(i) == Cardinality({k \in Ids : k < i})

\* the loop counters stay within the 64 words of 64 bits
CountersBounded ==
    /\ scan.wordIdx \in 0..64
    /\ scan.bitIdx \in 0..64
    /\ Len(scan.st.words) <= scan.wordIdx + 1
    /\ scan.st.parsedCount = Len(scan.st.accounts)
    /\ scan.st.parsedCount <= scan.numUsedAccounts

\* How many steps a call can still take at most: every iteration of the
\* inner loop moves bitIdx towards 64, every iteration of the outer loop
\* moves wordIdx towards 64, and nothing moves them back.
Rank ==
    CASE pc = "idle"    -> 70 * 65 + 3
      [] pc = "fetched" -> 70 * 65 + 2
      [] Finished       -> 0
      [] OTHER ->
            CASE scan.phase = "word" -> 70 * (65 - scan.wordIdx)
              [] scan.phase = "bit"  -> 70 * (65 - scan.wordIdx) - 1 - scan.bitIdx
              [] OTHER               -> 1

\* the scan taken step by step returns what the whole decode computes
StepwiseIsDecodeSlab ==
    (Finished /\ data.len > 0) => result = DecodeSlab(data)

\* what a finished scan has visited and collected
ScanBounded ==
    pc = "returned" =>
        /\ Len(Words) <= 64
        /\ StrictlyAscending(Words)
        /\ \A j \in 1..Len(Words) : Words[j] \in 0..63
        /\ StrictlyAscending(result.locals.parsed)
        /\ Parsed \subseteq 0..4095
        /\ Len(Accounts) <= NumUsedOf(data)
        /\ \A i \in Parsed : PushedBefore(i) < NumUsedOf(data)
        /\ \A j \in 1..Len(Words) : PushedBefore(64 * Words[j]) < NumUsedOf(data)
        /\ Ids = {i \in Parsed : AtMostCeiling(StoredId(data, i))}
        /\ \A j \in 1..Len(Accounts) : Accounts[j] = RecordAt(data, Accounts[j].accountId)
        /\ result.slab.totalAccounts = Len(Accounts)

(* C11: whatever the buffer holds (any length, bitmap, numUsedAccounts,    *)
(* also a set-bit count other than numUsedAccounts), the scan comes to an  *)
(* end: every step of a call lowers a rank that is never negative, the     *)
(* loop counters never pass 64 words of 64 bits; the scan reads each       *)
(* bitmap word and hands each slot to parseAccount at most once, returns   *)
(* the records collected so far, and parses no slot after the number of    *)
(* records has reached numUsedAccounts.                                    *)
C11_ScanTerminates ==
    /\ [](ScanBounded /\ CountersBounded /\ StepwiseIsDecodeSlab /\ Rank >= 0)
    /\ [][Rank' < Rank]_vars

\* three bits set, numUsedAccounts = 2: the scan stopped after slot 2 and
\* slot 64, which holds a good record, was never parsed
C11_Witness ==
    /\ pc = "returned"
    /\ Cardinality(LiveSlots(data)) = 3
    /\ NumUsedOf(data) = 2
    /\ Ids = {0, 2}
    /\ 64 \in Eligible(data) \ Parsed
    /\ Words = <<0>>

\* fewer bits set than numUsedAccounts: all 64 words were read
C11_WitnessAllWords ==
    /\ pc = "returned"
    /\ Len(Accounts) < NumUsedOf(data)
    /\ Len(Words) = 64

---------------------------------------------------------------------------
\* the buffer of the scenario: the magic, oraclePriceE6 = 1234567 at
\* 72 + 312, bitmap word 0 = 0b101, numUsedAccounts = 2
ScenarioBuffer(buf) ==
    /\ MagicMatches(buf)
    /\ buf.len >= 392 /\ Bytes(buf, 384, 8) = <<135, 214, 18, 0, 0, 0, 0, 0>>
    /\ buf.len >= 808 /\ Bytes(buf, 800, 8) = <<5, 0, 0, 0, 0, 0, 0, 0>>
    /\ buf.len >= 1314 /\ NumUsedOf(buf) = 2

ScenarioResult ==
    /\ pc = "returned"
    /\ result.slab.totalAccounts = 2
    /\ Len(Accounts) = 2
    /\ Accounts[1].accountId = 0
    /\ Accounts[2].accountId = 2
    /\ result.slab.oraclePriceE6 = Num(FALSE, <<135, 214, 18>>)

(* C19 as stated: on a buffer with the magic, oraclePriceE6 = 1234567 at   *)
(* config offset 312, bitmap word 0 = 0b101 and numUsedAccounts = 2,       *)
(* fetchSlabData reports totalAccounts = 2, the records 0 and 2 in that    *)
(* order and oraclePriceE6 = 1234567; the reported oraclePriceE6 is always *)
(* the little-endian u64 at offset 72 + 312.                               *)
C19_Original ==
    /\ (Finished /\ ScenarioBuffer(data)) => ScenarioResult
    /\ pc = "returned" =>
          result.slab.oraclePriceE6 = LittleEndianValue("readU64", data, 72 + 312)

(* C19 amended: ... and whose slots 0 and 2 lie wholly within the buffer   *)
(* and store accountIds of at most 1,000,000, fetchSlabData reports ...    *)
C19_Scenario ==
    /\ (/\ Finished /\ ScenarioBuffer(data)
        /\ Fits(data, 0) /\ Fits(data, 2)
        /\ AtMostCeiling(StoredId(data, 0)) /\ AtMostCeiling(StoredId(data, 2)))
            => ScenarioResult
    /\ pc = "returned" =>
          result.slab.oraclePriceE6 = LittleEndianValue("readU64", data, 72 + 312)

\* the scenario on a whole slab, slot 2 storing an accountId other than 2
C19_Witness ==
    /\ ScenarioBuffer(data)
    /\ data.len = fullLength
    /\ LiveSlots(data) = {0, 2}
    /\ StoredId(data, 2).mag = <<3>>
    /\ ScenarioResult

---------------------------------------------------------------------------
\* the 16 little-endian bytes of v mod 2^128
TwosComplement16(v) ==
    IF v.neg THEN Pad(MagSub(Pow256(16), v.mag), 16) ELSE Pad(v.mag, 16)

(* C13: for every v with -2^127 <= v <= 2^127 - 1, encI128(v) is 16 bytes  *)
(* long and holds the little-endian bytes of v mod 2^128: the magnitude of *)
(* a non-negative v, and for a negative v every byte of |v| inverted, plus *)
(* 1 carried through all 16 bytes; encI128(-1) is sixteen 0xFF bytes.      *)
C13_TwosComplement ==
    (cop = "encI128" /\ InI128(cin.v)) =>
        /\ cout # RangeError
        /\ cout.len = 16
        /\ Bytes(cout, 0, 16) = TwosComplement16(cin.v)
        /\ ~cin.v.neg => Bytes(cout, 0, 16) = Pad(cin.v.mag, 16)
        /\ cin.v.neg => Bytes(cout, 0, 16) = Complement(Pad(cin.v.mag, 16))
        /\ cin.v = Num(TRUE, <<1>>) => Bytes(cout, 0, 16) = [i \in 1..16 |-> 255]

\* encI128(-1) gave sixteen 0xFF bytes
C13_Witness ==
    /\ cop = "encI128"
    /\ cin.v = Num(TRUE, <<1>>)
    /\ cout = BufOfSeq([i \in 1..16 |-> 255])

\* encI128(-256): the carry went from the first byte into the second
C13_WitnessCarry ==
    /\ cop = "encI128"
    /\ cin.v = Num(TRUE, <<0, 1>>)
    /\ Bytes(cout, 0, 3) = <<0, 255, 255>>

---------------------------------------------------------------------------
\* the program instructions a transaction holds
ProgramInstructionsOf(tx) ==
    SelectSeq(tx.instructions, LAMBDA ins : ins.kind = "program")

\* the build function got as far as adding its program instruction
ProgramAdded == bpc \in {"awaitBlockhash", "returned"}
                \/ (bpc = "threw" /\ ProgramInstructionsOf(btx) # <<>>)

\* value as unsigned little-endian in w bytes, for 0 <= value < 256^w
U16LE(value) == <<value % 256, (value \div 256) % 256>>
U64LE(bn) == [i \in 1..8 |-> Digit(bn.mag, i)]

\* the payload the wire format lays down for a call
Layout(call) ==
    CASE call.fn = "InitUser" -> <<1>> \o U64LE(call.amount)
      [] call.fn = "Deposit"  -> <<3>> \o U16LE(call.userIdx) \o U64LE(call.amount)
      [] call.fn = "Withdraw" -> <<4>> \o U16LE(call.userIdx) \o U64LE(call.amount)
      [] OTHER -> <<10>> \o U16LE(call.lpIdx) \o U16LE(call.userIdx)
                       \o TwosComplement16(call.size)

LayoutLength(call) ==
    CASE call.fn = "InitUser" -> 9
      [] call.fn \in {"Deposit", "Withdraw"} -> 11
      [] OTHER -> 21

(* C12: whenever a build function adds its program instruction, the        *)
(* instruction's data is the tag byte followed by the fields little-endian *)
(* with nothing between them: InitUser [1] ++ u64(fee), 9 bytes; Deposit   *)
(* [3] ++ u16(index) ++ u64(amount), 11 bytes; Withdraw [4] ++ u16(index)  *)
(* ++ u64(amount), 11 bytes; TradeCpi [10] ++ u16(lpIdx) ++ u16(userIdx)   *)
(* ++ i128(size), 21 bytes.                                                *)
C12_DataLayout ==
    ProgramAdded =>
        /\ Len(ProgramInstructionsOf(btx)) = 1
        /\ LET data12 == ProgramInstructionsOf(btx)[1].data
           IN  /\ data12.len = LayoutLength(bcall)
               /\ Bytes(data12, 0, data12.len) = Layout(bcall)

\* a deposit for account 4095 of 10000000 units was built
C12_Witness ==
    /\ bpc = "returned"
    /\ bcall.fn = "Deposit"
    /\ bcall.userIdx = 4095
    /\ bcall.amount = FeePayment
    /\ Bytes(ProgramInstructionsOf(bout.transaction)[1].data, 0, 11)
         = <<3, 255, 15, 128, 150, 152, 0, 0, 0, 0, 0>>

\* a trade of size -1 against LP 4095 for user 2 was built
C12_WitnessTrade ==
    /\ bpc = "returned"
    /\ bcall.fn = "Trade"
    /\ bcall.lpIdx = 4095
    /\ bcall.userIdx = 2
    /\ bcall.size = Num(TRUE, <<1>>)
    /\ Bytes(ProgramInstructionsOf(bout.transaction)[1].data, 0, 21)
         = <<10, 255, 15, 2, 0>> \o [i \in 1..16 |-> 255]

---------------------------------------------------------------------------
Kinds(instructions) == [i \in 1..Len(instructions) |-> instructions[i].kind]

\* the existence reads a call has made
ExistenceReads == SelectSeq(bio, LAMBDA r : r.method = "getAccountInfo")

\* transfer, sync and program instruction as the claim describes them
WrapTail(instructions, call) ==
    LET n == Len(instructions)
    IN  /\ n >= 3
        /\ instructions[n - 2].kind = "transfer"
        /\ instructions[n - 2].toPubkey = UserAta(call)
        /\ instructions[n - 2].lamports = call.amount
        /\ instructions[n - 1].kind = "syncNative"
        /\ instructions[n - 1].account = UserAta(call)
        /\ instructions[n].kind = "program"

(* C14: when buildInitUserTransaction or buildDepositTransaction has added *)
(* its program instruction and the mint is the wrapped-native mint, the    *)
(* instruction list is [create-associated-account] exactly when the        *)
(* existence read replied that the account is absent, then the transfer of *)
(* the amount into the associated account, then sync-native, then the      *)
(* program instruction; for another mint the list is the program           *)
(* instruction alone and the call makes no existence read.                 *)
C14_WrapOrder ==
    bcall.fn \in {"InitUser", "Deposit"} =>
        IF IsNativeSOL(bcall)
        THEN ProgramAdded =>
                /\ Len(ExistenceReads) = 1
                /\ WrapTail(btx.instructions, bcall)
                /\ IF ExistenceReads[1].reply = "null"
                   THEN /\ Kinds(btx.instructions)
                             = <<"createAssociatedTokenAccount", "transfer",
                                 "syncNative", "program">>
                        /\ btx.instructions[1].associatedAccount = UserAta(bcall)
                   ELSE /\ ExistenceReads[1].reply = "account"
                        /\ Kinds(btx.instructions)
                             = <<"transfer", "syncNative", "program">>
        ELSE /\ ExistenceReads = <<>>
             /\ ProgramAdded => Kinds(btx.instructions) = <<"program">>

\* a native deposit whose associated account was absent was returned
C14_Witness ==
    /\ bpc = "returned"
    /\ bcall.fn = "Deposit"
    /\ IsNativeSOL(bcall)
    /\ ExistenceReads[1].reply = "null"
    /\ Len(bout.transaction.instructions) = 4

\* a native init whose associated account exists was returned
C14_WitnessPresent ==
    /\ bpc = "returned"
    /\ bcall.fn = "InitUser"
    /\ IsNativeSOL(bcall)
    /\ ExistenceReads[1].reply = "account"
    /\ Len(bout.transaction.instructions) = 3

\* a deposit of another mint was returned
C14_WitnessOtherMint ==
    /\ bpc = "returned"
    /\ bcall.fn = "Deposit"
    /\ ~IsNativeSOL(bcall)
    /\ Len(bout.transaction.instructions) = 1

---------------------------------------------------------------------------
\* the positions in a list at which an instruction of a kind stands
PositionsOf(instructions, kind) ==
    {i \in 1..Len(instructions) : instructions[i].kind = kind}

(* C15: when buildWithdrawTransaction has added its instructions, the list *)
(* is [withdraw instruction, close-account instruction] for the            *)
(* wrapped-native mint and [withdraw instruction] for any other mint; a    *)
(* close-account instruction never stands before the withdraw instruction. *)
C15_WithdrawOrder ==
    (bcall.fn = "Withdraw" /\ ProgramAdded) =>
        /\ btx.instructions[1].kind = "program"
        /\ btx.instructions[1].data.nz[0] = IX_TAG_WithdrawCollateral
        /\ IF IsNativeSOL(bcall)
           THEN /\ Kinds(btx.instructions) = <<"program", "closeAccount">>
                /\ btx.instructions[2].account = UserAta(bcall)
                /\ btx.instructions[2].dest = userPublicKey
           ELSE Kinds(btx.instructions) = <<"program">>
        /\ \A c \in PositionsOf(btx.instructions, "closeAccount") :
            \A w \in PositionsOf(btx.instructions, "program") : w < c

\* a withdrawal of the wrapped-native mint was returned with both instructions
C15_Witness ==
    /\ bpc = "returned"
    /\ bcall.fn = "Withdraw"
    /\ IsNativeSOL(bcall)
    /\ Kinds(bout.transaction.instructions) = <<"program", "closeAccount">>

\* a withdrawal of another mint was returned
C15_WitnessOtherMint ==
    /\ bpc = "returned"
    /\ bcall.fn = "Withdraw"
    /\ ~IsNativeSOL(bcall)
    /\ Len(bout.transaction.instructions) = 1

---------------------------------------------------------------------------
\* the latest-blockhash reads a call has made
BlockhashReads == SelectSeq(bio, LAMBDA r : r.method = "getLatestBlockhash")

BuildEnded == bpc \in {"returned", "threw"}

\* a build function is between its entry and its end
BuildRunning == bpc \in {"awaitAta", "awaitExists", "awaitBlockhash"}

\* the reads of a call, whatever its end
ReadsAllowed ==
    /\ \A i \in 1..Len(bio) : bio[i].method \in {"getAccountInfo", "getLatestBlockhash"}
    /\ Len(BlockhashReads) <= 1
    /\ Len(ExistenceReads) <= 1
    /\ BlockhashReads # <<>> =>
        /\ bio[Len(bio)].method = "getLatestBlockhash"
        /\ bio[Len(bio)].assembled = Len(btx.instructions)
        /\ ProgramInstructionsOf(btx) # <<>>
    /\ bcall.fn \in {"Withdraw", "Trade"} => ExistenceReads = <<>>
    /\ ExistenceReads # <<>> =>
        /\ bcall.fn \in {"InitUser", "Deposit"}
        /\ IsNativeSOL(bcall)
        /\ bio[1].method = "getAccountInfo"

\* while a build function runs nothing but its own transaction, its own
\* position and the log of its reads changes, and once the blockhash read
\* is made no instruction is added
BuildFrame ==
    BuildRunning =>
        /\ UNCHANGED <<bcall, bseen, ui, otherThanBuild>>
        /\ bpc = "awaitBlockhash" => btx'.instructions = btx.instructions

(* C16 (as the code has it): a call of a build function that returns a     *)
(* transaction has made exactly one latest-blockhash read, as its last     *)
(* read and with all instructions of the returned transaction in place; a  *)
(* call that fails has made at most one.  buildWithdrawTransaction and     *)
(* buildTradeTransaction make no other read; buildInitUserTransaction and  *)
(* buildDepositTransaction make at most one existence read before it, and  *)
(* only for the wrapped-native mint.  No step of a build function changes  *)
(* anything but the transaction it builds.                                 *)
C16_Reads ==
    /\ [](/\ ReadsAllowed
          /\ bpc = "returned" =>
                /\ Len(BlockhashReads) = 1
                /\ bio[Len(bio)].assembled = Len(bout.transaction.instructions))
    /\ [][BuildFrame]_vars

(* C16 as stated: every call, however it ends, has made exactly one        *)
(* latest-blockhash read.                                                  *)
C16_Original == BuildEnded => Len(BlockhashReads) = 1

\* a native deposit was returned after one existence read and one
\* blockhash read, the latter with all four instructions in place
C16_Witness ==
    /\ bpc = "returned"
    /\ bcall.fn = "Deposit"
    /\ Len(bio) = 2
    /\ bio[1].method = "getAccountInfo"
    /\ bio[2] = [method |-> "getLatestBlockhash", assembled |-> 4, reply |-> "h1"]

\* a trade was returned after its single read
C16_WitnessTrade ==
    /\ bpc = "returned"
    /\ bcall.fn = "Trade"
    /\ Len(bio) = 1
    /\ bio[1].assembled = 1

\* a deposit for account 65536 ended without a blockhash read
C16_WitnessNoRead ==
    /\ bpc = "threw"
    /\ bcall.fn = "Deposit"
    /\ bcall.userIdx = 65536
    /\ BlockhashReads = <<>>

---------------------------------------------------------------------------
\* a handler of the panel ran with an address string that does not parse
\* among those it hands to new PublicKey
AddressFormatError == ui.via = "panel" /\ ui.env.bad \in ParsedBy(ui.op)

\* a handler that needs the vault address ran without it
MissingContext ==
    /\ ui.via = "panel"
    /\ ui.op \in {"InitUser", "Deposit", "Withdraw"}
    /\ ~ui.env.vaultKnown

\* no call on the connection was made, no build function holds or has
\* returned anything, nothing went to signAndSendTransaction
NothingBuilt ==
    /\ bio = <<>>
    /\ btx = NewTransaction
    /\ bout = [status |-> "none"]
    /\ bpc = "idle"
    /\ ui.sent = <<>>
    /\ ui.txStatus # "Sending transaction..."

(* C17: when a handler of the panel runs with an address string that does  *)
(* not parse, or without the vault address it needs, it ends before any    *)
(* call on the connection (no existence read, no blockhash read), no       *)
(* transaction and no instruction list is returned, and nothing is handed  *)
(* to signing; and a build that fails for any reason hands nothing to      *)
(* signing either.                                                         *)
C17_FailuresBeforeIO ==
    /\ (AddressFormatError \/ MissingContext) => NothingBuilt
    /\ bpc = "threw" => (bout.status = "threw" /\ ui.sent = <<>>)

\* a deposit that passed its guards stopped at an unparsable vault address
C17_Witness ==
    /\ ui.op = "Deposit"
    /\ PanelGuard(ui.op, ui.env) = "ok"
    /\ ui.env.amount = "ok"
    /\ ui.env.bad = "vaultAddress"
    /\ ui.txStatus = "Deposit failed: Invalid public key input"
    /\ NothingBuilt

\* an init with a connected wallet stopped at the missing vault address
C17_WitnessMissing ==
    /\ ui.op = "InitUser"
    /\ ui.env.connected
    /\ ~ui.env.vaultKnown
    /\ ui.txStatus = "Vault address not available. Please refresh the market data."
    /\ NothingBuilt

\* with every address in place the same handler reached the network
C17_WitnessReached ==
    /\ ui.op = "Deposit"
    /\ ui.env.bad = "none"
    /\ ui.sent # <<>>
    /\ Len(bio) = 2

---------------------------------------------------------------------------
\* the account the TradeCpi instruction names last, transactions.ts 357
LpKeyOf(instruction) == instruction.keys[Len(instruction.keys)].pubkey

\* the address the seeds ("lp", slab bytes, lpIdx as u16 little-endian) give
LpAddressOf(programId, slabAddress, lpIdx) ==
    FindProgramAddress(<<LpSeed, ToBuffer(slabAddress), BufOfSeq(U16LE(lpIdx))>>,
                       programId)

(* C18: the LP address a TradeCpi instruction names is the program address *)
(* of the seeds "lp", the slab address bytes and lpIdx as a little-endian  *)
(* u16 under programId; the index bytes of that seed are the lpIdx bytes   *)
(* of the instruction's payload; it is in place before the call's first    *)
(* read on the connection; and all trade calls of a behaviour that agree   *)
(* on (programId, slabAddress, lpIdx) got the same address, whatever their *)
(* other params.                                                           *)
C18_LpAddress ==
    /\ (bcall.fn = "Trade" /\ ProgramAdded) =>
        LET ins == ProgramInstructionsOf(btx)[1]
        IN  /\ LpKeyOf(ins) = LpAddressOf(bcall.programId, bcall.slabAddress, bcall.lpIdx)
            /\ Bytes(LpKeyOf(ins).seeds[3], 0, 2) = Bytes(ins.data, 1, 2)
            /\ LpKeyOf(ins).seeds[3].len = 2
            /\ bio[1].method = "getLatestBlockhash"
            /\ bio[1].assembled = 1
    /\ \A a \in bseen : \A b \in bseen :
        (a.programId = b.programId /\ a.slabAddress = b.slabAddress
            /\ a.lpIdx = b.lpIdx) => a.lpPda = b.lpPda

\* two trades for different users against the same LP of the same slab and
\* program were built
C18_Witness ==
    /\ bpc = "returned"
    /\ bcall.fn = "Trade"
    /\ bcall.lpIdx = 4095
    /\ \E a \in bseen : \E b \in bseen :
        /\ a.userIdx # b.userIdx
        /\ a.programId = b.programId /\ a.slabAddress = b.slabAddress
        /\ a.lpIdx = b.lpIdx
        /\ a.lpPda = b.lpPda

\* two trades that differ in the slab only got different addresses
C18_WitnessOtherSlab ==
    \E a \in bseen : \E b \in bseen :
        /\ a.programId = b.programId /\ a.lpIdx = b.lpIdx
        /\ a.slabAddress # b.slabAddress
        /\ a.lpPda # b.lpPda

---------------------------------------------------------------------------
\* what a caller holding the value call c returned sees in it, in a state
\* with the calls cs and the arrays hp
SeenBy(cs, hp, c) ==
    [cs[c].result EXCEPT !.slab.accounts = hp[cs[c].accounts]]

Returned(c) == calls[c].pc = "returned"

\* every value returned so far is the one its call gives when run alone on
\* the bytes it fetched
EachAsAlone ==
    \A c \in CallIds :
        /\ Returned(c) =>
            /\ calls[c].result = DecodeSlab(calls[c].data)
            /\ SeenBy(calls, heap, c) = DecodeSlab(calls[c].data)
        /\ calls[c].pc = "threw" =>
            calls[c].result \in {Threw("Slab account not found"),
                                 DecodeSlab(calls[c].data)}

\* no step changes a value already returned
ReturnedKept ==
    \A c \in CallIds :
        Returned(c) => /\ calls'[c] = calls[c]
                       /\ SeenBy(calls', heap', c) = SeenBy(calls, heap, c)

(* C20: with several calls of fetchSlabData in flight and their stretches  *)
(* of code interleaved in any order, every call returns (or throws) what   *)
(* it would when run alone on the bytes it fetched, and the value a call   *)
(* has returned, its accounts array included, is the same in every later   *)
(* state.                                                                  *)
C20_NoSharedState == []EachAsAlone /\ [][ReturnedKept]_vars

\* both calls returned, on different data and with different account lists
C20_Witness ==
    /\ Returned(1) /\ Returned(2)
    /\ calls[1].data # calls[2].data
    /\ Len(SeenBy(calls, heap, 1).slab.accounts) = 2
    /\ Len(SeenBy(calls, heap, 2).slab.accounts) = 1

\* a call returned while the other was still waiting for its account data
C20_WitnessOverlap ==
    /\ Returned(2)
    /\ calls[1].pc = "awaiting"
    /\ Len(heap[calls[2].accounts]) = 2

---------------------------------------------------------------------------
\* the live slots that lie within the buffer and are refused by the sanity
\* check
Malformed(buf) ==
    {i \in LiveSlots(buf) : Fits(buf, i) /\ ~AtMostCeiling(StoredId(buf, i))}

\* the live slots whose 240 bytes reach past the end of the buffer
Exceeding(buf) == {i \in LiveSlots(buf) : ~Fits(buf, i)}

\* slot i is returned, or numUsedAccounts records of smaller slots are
ReturnedOrCapped(i) ==
    i \in Ids \/ Cardinality({k \in Ids : k < i}) >= NumUsedOf(data)

(* C24 as stated, its last part: when a live slot's 240 bytes exceed the   *)
(* buffer, every live slot with a smaller index that fits is returned.     *)
C24_Original ==
    pc = "returned" =>
        \A t \in Exceeding(data) :
            \A i \in LiveSlots(data) : (i < t /\ Fits(data, i)) => i \in Ids

(* C24 amended: a live slot refused for its stored accountId is not        *)
(* counted toward numUsedAccounts and does not stop the scan: the records  *)
(* returned are as many as numUsedAccounts allows of the live, in-range,   *)
(* well-formed slots, every such slot after a refused one is returned      *)
(* unless numUsedAccounts records of smaller slots are; and when a live    *)
(* slot exceeds the buffer, every live, well-formed slot with a smaller    *)
(* index that fits is returned, again up to numUsedAccounts records.       *)
C24_ScanContinues ==
    pc = "returned" =>
        /\ Malformed(data) \cap Ids = {}
        /\ Len(Accounts) = Min2(NumUsedOf(data), Cardinality(Eligible(data)))
        /\ \A m \in Malformed(data) :
            \A i \in Eligible(data) : i > m => ReturnedOrCapped(i)
        /\ \A t \in Exceeding(data) :
            \A i \in Eligible(data) : i < t => ReturnedOrCapped(i)

\* slot 0 is refused, numUsedAccounts is 2, and slots 2 and 64 are both
\* returned after it
C24_Witness ==
    /\ pc = "returned"
    /\ Malformed(data) = {0}
    /\ NumUsedOf(data) = 2
    /\ Ids = {2, 64}

\* slot 64 exceeds the buffer and slots 0 and 2 before it are returned
C24_WitnessExceeds ==
    /\ pc = "returned"
    /\ Exceeding(data) = {64}
    /\ Ids = {0, 2}

---------------------------------------------------------------------------
\* the n lowest members of a set of slot indices
Lowest(S, n) == {i \in S : Cardinality({k \in S : k < i}) < n}

(* C26: in every SlabData returned, totalAccounts is the length of         *)
(* accounts and is at most numUsedAccounts, at most the number of set      *)
(* bitmap bits and at most 4096; when there are more live, in-range,       *)
(* well-formed slots than numUsedAccounts the records returned are exactly *)
(* the numUsedAccounts lowest of them, so none at all when numUsedAccounts *)
(* is 0, whether stored as 0 or read as 0 past the end of the buffer.      *)
C26_CountBounds ==
    pc = "returned" =>
        /\ result.slab.totalAccounts = Len(Accounts)
        /\ Cardinality(Ids) = Len(Accounts)
        /\ Len(Accounts) <= NumUsedOf(data)
        /\ Len(Accounts) <= Cardinality(LiveSlots(data))
        /\ Len(Accounts) <= MAX_ACCOUNTS
        /\ result.locals.numUsedAccounts = Num(FALSE, MagOfNat(NumUsedOf(data)))
        /\ Cardinality(Eligible(data)) > NumUsedOf(data) =>
            Ids = Lowest(Eligible(data), NumUsedOf(data))
        /\ NumUsedOf(data) = 0 => Accounts = <<>>

\* three eligible slots, numUsedAccounts = 2: the two lowest are returned
C26_Witness ==
    /\ pc = "returned"
    /\ Eligible(data) = {0, 2, 64}
    /\ NumUsedOf(data) = 2
    /\ Ids = {0, 2}
    /\ result.slab.totalAccounts = 2

\* numUsedAccounts lies past the end of the buffer, bitmap bits are set and
\* nothing is returned
C26_WitnessCutOff ==
    /\ pc = "returned"
    /\ data.len = 1313
    /\ LiveSlots(data) # {}
    /\ Accounts = <<>>

---------------------------------------------------------------------------
\* the size field of a TradeCpi payload read back as a two's-complement i128
SizeField(instruction) == LittleEndianValue("readI128", instruction.data, 5)

(* C27: every TradeCpi payload buildTradeTransaction emits carries, in its *)
(* 16-byte size field read as a two's-complement i128, the size that was   *)
(* asked for; for a size outside [-2^127, 2^127 - 1] the call fails and    *)
(* emits nothing.                                                          *)
C27_NoSilentWrap ==
    (bcall.fn = "Trade" /\ bpc # "idle") =>
        /\ ProgramAdded => SizeField(ProgramInstructionsOf(btx)[1]) = bcall.size
        /\ ~InI128(bcall.size) => (bpc = "threw" /\ ProgramInstructionsOf(btx) = <<>>)

\* what holds in its place: sizes within the range are carried unchanged,
\* and 2^128 and beyond is refused
C27_InRangeCarried ==
    (bcall.fn = "Trade" /\ bpc # "idle") =>
        /\ (ProgramAdded /\ InI128(bcall.size)) =>
                SizeField(ProgramInstructionsOf(btx)[1]) = bcall.size
        /\ ~FitsU64(Trim(SubSeq(Pad(bcall.size.mag, 17), 9, 17))) => bpc = "threw"

\* a trade of size 2^127 was returned with a size field that reads -2^127
C27_Wrapped ==
    /\ bpc = "returned"
    /\ bcall.fn = "Trade"
    /\ bcall.size = Num(FALSE, Zeros(15) \o <<128>>)
    /\ SizeField(ProgramInstructionsOf(bout.transaction)[1])
         = Num(TRUE, Zeros(15) \o <<128>>)

---------------------------------------------------------------------------
\* the owner bytes slot i holds
OwnerBytes(buf, i) == LittleEndianValue("readPubkey", buf, SlotStart(i) + 184)

\* the first live, in-range, well-formed slot of the connected wallet, and
\* the first such slot whose kind byte is 1
WalletSlot == First({i \in Eligible(panel.data) :
                        OwnerBytes(panel.data, i) = panel.publicKey})
FirstLpSlot == First({i \in Eligible(panel.data) :
                        ByteAt(panel.data, SlotStart(i) + 24) = 1})

(* C25: every index a handler of the panel puts into a DepositCollateral,  *)
(* WithdrawCollateral or TradeCpi payload, and into the LP address seed,   *)
(* is the bitmap slot of the record it belongs to: the slot of the first   *)
(* record owned by the connected wallet for userIdx, the slot of the first *)
(* LP record for lpIdx; never the accountId the record stores.             *)
C25_SlotIndices ==
    panel.pc = "built" =>
        LET ins == panel.instruction
        IN  /\ panel.op \in {"Deposit", "Withdraw"} =>
                Bytes(ins.data, 1, 2) = U16LE(WalletSlot)
            /\ panel.op = "Trade" =>
                /\ Bytes(ins.data, 1, 2) = U16LE(FirstLpSlot)
                /\ Bytes(ins.data, 3, 2) = U16LE(WalletSlot)
                /\ Bytes(LpKeyOf(ins).seeds[3], 0, 2) = U16LE(FirstLpSlot)

\* a trade for the wallet of slot 64 against the LP of slot 2, both slots
\* storing another accountId than their index
C25_Witness ==
    /\ panel.pc = "built"
    /\ panel.op = "Trade"
    /\ WalletSlot = 64
    /\ FirstLpSlot = 2
    /\ StoredId(panel.data, 64).mag # MagOfNat(64)
    /\ StoredId(panel.data, 2).mag # MagOfNat(2)
    /\ Bytes(panel.instruction.data, 1, 4) = <<2, 0, 64, 0>>

\* a deposit for the wallet of slot 2, which is the first record returned
C25_WitnessDeposit ==
    /\ panel.pc = "built"
    /\ panel.op = "Deposit"
    /\ LiveSlots(panel.data) = {2, 64}
    /\ WalletSlot = 2


---------------------------------------------------------------------------
(***************************************************************************)
(* The PIN lockout                                                         *)
(***************************************************************************)

\* the steps of handlePinSubmit in which decryptData was given the PIN typed
Checks == {"verified", "decrypted", "rejected", "wiped"}

\* the steps in which it did not decrypt
FailedAttempt == {"rejected", "wiped"}

C21_WitnessBelow ==
    /\ pinm.did = "rejected"
    /\ Len(pinm.saved) = MaxKeys
    /\ pinm.stored = {ChallengeAt}

\* a digit typed or clicked was taken into the PIN
DigitAccepted == \E d \in 0..9 : pinm'.pin = Append(pinm.pin, d)

\* C22: while the persisted counter is 9 and no math problem has been
\* answered correctly since it became 9, no PIN digit is accepted and no PIN
\* is checked against the stored keys, in every mode of the modal and
\* across closing, reopening and reloading.
C22_ChallengeBeforeLast ==
    [][(Counter(pinm) = ChallengeAt /\ ~pinm.answered) =>
          ~DigitAccepted /\ pinm'.did \notin Checks]_vars

\* C22: a whole PIN typed into the change-PIN verification with nine
\* failures counted, no math problem shown and none answered
C22_TypedUnchallenged ==
    /\ Counter(pinm) = ChallengeAt /\ ~pinm.answered
    /\ pinm.showPinModal /\ pinm.pinModalMode = "change-verify"
    /\ ~pinm.mathProblem
    /\ Len(pinm.pin) = PinLength /\ pinm.timer # {}

\* C29: while encrypted keypairs are saved the persisted counter is lowered
\* only by a step in which a PIN decrypted a stored key (an unlock, a
\* completed PIN change) or by the wipe, so that no more than 10 wrong PINs
\* in a row are tried against keys that stay saved.
C29_ResetOnlyAfterDecrypt ==
    /\ [](pinm.tried <= WipeLimit)
    /\ [][(Counter(pinm') < Counter(pinm) /\ pinm.saved # <<>>) =>
             pinm'.did \in {"decrypted", "changed", "wiped"}]_vars

\* C29: more than 10 wrong PINs tried, none right, the keypairs still saved
C29_MoreThanTen ==
    /\ pinm.tried > WipeLimit
    /\ pinm.saved # <<>>
    /\ pinm.did = "rejected"


---------------------------------------------------------------------------
(***************************************************************************)
(* useMarketData                                                           *)
(***************************************************************************)

\* a call of fetchData made by the interval begins in this step
TimerFetchStarts == \E f \in market'.flights \ market.flights : f.timer

\* C23: after a fetch has failed, and until some fetch succeeds, the
\* interval starts no fetch; while a market is selected the interval stays
\* set for it.
C23_PausesOnError ==
    /\ [](market.selected # NoMarket => market.interval = {market.selected})
    /\ [][market.failing => ~TimerFetchStarts]_vars

\* C23: a fetch started by the interval after a failure that no success
\* has followed
C23_TimerFetchWhileFailing ==
    \E f \in market.flights : f.timer /\ f.failing /\ market.failing

\* C28: the snapshot in data and in stats is of the market now selected
\* and of the latest fetch stored so far, and error is non-null only while
\* loadingState is 'error'.
C28_SnapshotCurrent ==
    /\ \A snap \in market.data \cup market.stats :
          snap.market = market.selected /\ snap.seq >= market.newest
    /\ market.error => market.loadingState = "error"

\* C28: a response for the market selected before is stored after the
\* response for the market selected now
C28_StaleStored ==
    /\ market.selected # NoMarket
    /\ \E snap \in market.data :
          snap.market # market.selected /\ snap.seq < market.newest

\* C28: error is left non-null by the success of an overlapping fetch
C28_ErrorAfterSuccess == market.error /\ market.loadingState = "success"


---------------------------------------------------------------------------
(***************************************************************************)
(* WalletProvider                                                          *)
(***************************************************************************)

\* the wallet state a failed connect leaves alone
Connection(s) == <<s.publicKey, s.walletType, s.isConnected, s.keypair, s.flag>>

\* C30: isConnected, a non-null publicKey and a non-null walletType hold
\* together; walletType 'keypair' comes with a keypair held; a connect that
\* fails changes error and isConnecting only; disconnect leaves publicKey,
\* walletType, keypair and error null and the 'wallet-auto-reconnect' flag
\* removed; the flag is set only by a connect of a browser wallet that
\* succeeded.
C30_WalletState ==
    /\ [](/\ wallet.isConnected <=> wallet.publicKey # {}
          /\ wallet.isConnected <=> wallet.walletType # "none"
          /\ wallet.walletType = "keypair" => wallet.keypair # {})
    /\ [][/\ wallet'.did = "connectFailed" =>
                Connection(wallet') = Connection(wallet)
          /\ wallet'.did = "disconnected" =>
                /\ Connection(wallet') = <<{}, "none", FALSE, {}, FALSE>>
                /\ wallet'.error = {}
          /\ (wallet'.flag /\ ~wallet.flag) =>
                /\ wallet'.did = "connected"
                /\ wallet'.walletType \in {"phantom", "solflare"}]_vars

\* disconnect ran to its end while a connect of a browser wallet was
\* awaiting
C30_Witness ==
    /\ wallet.did = "disconnected"
    /\ wallet.keypair = {} /\ ~wallet.isConnected
    /\ "phantom" \in wallet.awaiting

\* a connect failed while a keypair wallet was connected
C30_WitnessFailed ==
    /\ wallet.did = "connectFailed"
    /\ wallet.walletType = "keypair" /\ wallet.isConnected
    /\ wallet.error = {"Invalid secret key length"}

\* a keypair connected with the flag absent
C30_WitnessKeypair ==
    /\ wallet.did = "connected"
    /\ wallet.walletType = "keypair" /\ ~wallet.flag

===========================================================================
